---------------------------- MODULE Spec2Model ----------------------------
(***************************************************************************)
(* A model of the Reddit filter content script (src/src/index.ts): the     *)
(* keyword matcher, the post classifier, the synchronous collapse pass,    *)
(* the periodic account-age pass and the removal counters.                 *)
(*                                                                         *)
(* Strings are sequences of one-character strings, so that toLowerCase,    *)
(* the regular-expression escape and the word-boundary test are computed   *)
(* character by character, as the code computes them.                      *)
(***************************************************************************)
EXTENDS Naturals, Integers, Sequences, FiniteSets, TLC

VARIABLES
    \* ---- the keyword matcher on its own (SpecMatch)
    mTitle,        \* the text handed to findMatchingKeyword
    mKeywords,     \* settings.keywords
    mResult,       \* what findMatchingKeyword returned
    mPc,           \* "input" | "done"
    \* ---- the page
    dom,           \* the posts of the document, in document order
    \* ---- the classifier on its own (SpecClassify)
    cSettings,     \* the RuleSet convertElementToPost reads
    cEle,          \* the element handed to convertElementToPost
    cPost,         \* the Post it returned
    cPc,           \* "input" | "done"
    \* ---- the extension at work (Spec)
    storeSettings, \* browser.storage.local, key filterSettings
    storeCounters, \* browser.storage.local, key filterCounters
    today,         \* new Date().toDateString(), as a day number
    now,           \* Date.now(), in minutes
    insts,         \* every Filter constructed so far, in order of construction
    filter,        \* the module's variable filter: an index of insts, 0 for null
    loaded,        \* the content script's first main() call has happened
    procs,         \* the removePostsSecondPass calls suspended at their fetch
    popup,         \* the popup's loadCounters, when it is under way
    hist,          \* per post: how often collapsePost returned true on it and
                   \* how often incrementCounters was called for it
    lastAct        \* whether the handler that ran last was a rescan, and whose

matchVars == <<mTitle, mKeywords, mResult, mPc>>
classifyVars == <<cSettings, cEle, cPost, cPc>>
storeVars == <<storeSettings, storeCounters>>
runVars == <<storeVars, today, now, insts, filter, loaded, procs, popup, hist, lastAct>>

vars == <<matchVars, dom, classifyVars, runVars>>

-----------------------------------------------------------------------------
(* Strings *)

\* JavaScript null (getAttribute of a missing attribute, no match): a value
\* that is no string of the model, every string being a sequence of single
\* characters.
Null == <<"<null>">>

\* The variables of the matcher when another specification runs.
MatchIdle ==
    /\ mTitle = <<>>
    /\ mKeywords = <<>>
    /\ mResult = Null
    /\ mPc = "idle"

UpperChars == <<"A","B","C","D","E","F","G","H","I","J","K","L","M",
                "N","O","P","Q","R","S","T","U","V","W","X","Y","Z">>
LowerChars == <<"a","b","c","d","e","f","g","h","i","j","k","l","m",
                "n","o","p","q","r","s","t","u","v","w","x","y","z">>
DigitChars == {"0","1","2","3","4","5","6","7","8","9"}

Range(s) == {s[i] : i \in DOMAIN s}

\* The lowercase letter of every uppercase letter.
LowerOf ==
    [c \in Range(UpperChars) |->
        LowerChars[CHOOSE i \in DOMAIN UpperChars : UpperChars[i] = c]]

\* String.prototype.toLowerCase on one character.
LowerChar(c) == IF c \in DOMAIN LowerOf THEN LowerOf[c] ELSE c

\* A mutant of toLowerCase: the string is left as it is.
toLowerCaseIdentity(s) == s

\* String.prototype.toLowerCase.
toLowerCase(s) == [i \in DOMAIN s |-> LowerChar(s[i])]

\* \w of a RegExp without the u flag: [A-Za-z0-9_].
WordChars == Range(UpperChars) \cup Range(LowerChars) \cup DigitChars \cup {"_"}

IsWordChar(c) == c \in WordChars

\* Whether the character at position p of text is a word character; a
\* position outside the text is not.
IsWordAt(text, p) == p \in DOMAIN text /\ IsWordChar(text[p])

-----------------------------------------------------------------------------
(* The regular expression findMatchingKeyword builds *)

\* The class [.*+?^${}()|[\]\\] of the escaping replace().
MetaChars == {".", "*", "+", "?", "^", "$", "{", "}", "(", ")", "|", "[", "]", "\\"}

RECURSIVE escapeRegExp(_)
\* keyword.replace(/[.*+?^${}()|[\]\\]/g, '\\$&'): a backslash before every
\* metacharacter.
escapeRegExp(s) ==
    IF s = <<>> THEN <<>>
    ELSE (IF Head(s) \in MetaChars THEN <<"\\", Head(s)>> ELSE <<Head(s)>>)
         \o escapeRegExp(Tail(s))

\* A mutant of the escape: the keyword goes into the pattern as typed.
escapeNothing(s) == s

\* The source text of the pattern: \b, the escaped lowercased keyword, \b.
patternSource(keyword) ==
    <<"\\", "b">> \o escapeRegExp(toLowerCase(keyword)) \o <<"\\", "b">>

Tok(kind, ch, plus) == [kind |-> kind, ch |-> ch, plus |-> plus]

RECURSIVE parseRegExp(_)
\* new RegExp(source, 'i'), for the syntax the model's alphabet can produce:
\* \b is the word-boundary assertion, a backslash before any other character
\* makes it a literal, an unescaped "." is any character, an unescaped "^" or
\* "$" is an anchor, an unescaped "+" repeats the atom before it (and is a
\* syntax error, kind "invalid", when no atom precedes it); every other
\* character is a literal.
parseRegExp(src) ==
    IF src = <<>> THEN <<>>
    ELSE LET c == Head(src)
             atomLen == IF c = "\\" /\ Len(src) >= 2 THEN 2 ELSE 1
             atom ==
                 IF c = "\\"
                 THEN IF Len(src) < 2 THEN Tok("invalid", "", FALSE)
                      ELSE IF src[2] = "b" THEN Tok("wordb", "", FALSE)
                      ELSE Tok("lit", src[2], FALSE)
                 ELSE IF c = "." THEN Tok("any", "", FALSE)
                 ELSE IF c = "^" THEN Tok("bol", "", FALSE)
                 ELSE IF c = "$" THEN Tok("eol", "", FALSE)
                 ELSE IF c = "+" THEN Tok("invalid", "", FALSE)
                 ELSE Tok("lit", c, FALSE)
             quantified ==
                 /\ Len(src) > atomLen
                 /\ src[atomLen + 1] = "+"
             used == IF quantified THEN atomLen + 1 ELSE atomLen
             tok ==
                 IF quantified
                 THEN IF atom.kind \in {"lit", "any"}
                      THEN Tok(atom.kind, atom.ch, TRUE)
                      ELSE Tok("invalid", "", FALSE)
                 ELSE atom
         IN  <<tok>> \o parseRegExp(SubSeq(src, used + 1, Len(src)))

\* A mutant of the word boundary: the assertion holds everywhere (a substring
\* match).
WordBoundaryAnywhere(text, p) == TRUE

\* A word boundary lies before position p of text: exactly one of the
\* characters on its two sides is a word character.
WordBoundaryAt(text, p) == IsWordAt(text, p - 1) # IsWordAt(text, p)

\* A character token against one character of the text, under the i flag.
TokMatchesChar(tok, c) ==
    \/ tok.kind = "any"
    \/ tok.kind = "lit" /\ LowerChar(tok.ch) = LowerChar(c)

RECURSIVE MatchEnds(_, _, _, _)
\* The positions where a match of toks[j..] that starts at position i of text
\* can end (the position after its last character).
MatchEnds(toks, j, text, i) ==
    IF j > Len(toks) THEN {i}
    ELSE LET tok == toks[j] IN
         CASE tok.kind = "wordb" ->
                  IF WordBoundaryAt(text, i) THEN MatchEnds(toks, j + 1, text, i) ELSE {}
           [] tok.kind = "bol" ->
                  IF i = 1 THEN MatchEnds(toks, j + 1, text, i) ELSE {}
           [] tok.kind = "eol" ->
                  IF i = Len(text) + 1 THEN MatchEnds(toks, j + 1, text, i) ELSE {}
           [] tok.kind = "invalid" -> {}
           [] OTHER ->
                  IF tok.plus
                  THEN UNION { MatchEnds(toks, j + 1, text, i + n) :
                                 n \in { m \in 1..(Len(text) + 1 - i) :
                                           \A q \in i..(i + m - 1) : TokMatchesChar(tok, text[q]) } }
                  ELSE IF i \in DOMAIN text /\ TokMatchesChar(tok, text[i])
                       THEN MatchEnds(toks, j + 1, text, i + 1)
                       ELSE {}

\* RegExp.prototype.test of a pattern without the g flag: a match starting
\* anywhere in the text.
regexTest(toks, text) ==
    \E i \in 1..(Len(text) + 1) : MatchEnds(toks, 1, text, i) # {}

\* One iteration of findMatchingKeyword's loop: the pattern of one keyword
\* tested against the lowercased text.
keywordMatches(text, keyword) ==
    regexTest(parseRegExp(patternSource(keyword)), toLowerCase(text))

\* Filter.findMatchingKeyword: the first keyword, in list order, whose
\* pattern matches the lowercased text; null when none does.
findMatchingKeyword(text, keywords) ==
    LET hits == {j \in DOMAIN keywords : keywordMatches(text, keywords[j])} IN
    IF hits = {} THEN Null
    ELSE keywords[CHOOSE j \in hits : \A h \in hits : j <= h]

-----------------------------------------------------------------------------
(* The page *)

\* A post of the feed is one of three structures:
\*   "AS"  an <article> that holds a <shreddit-post>,
\*   "A"   an <article> with no <shreddit-post> inside,
\*   "S"   a <shreddit-post> with no enclosing <article>.
\* Its root is the article, or the shreddit-post of an "S" post. A record of
\* dom holds the attributes the filter reads (Null: the attribute is missing)
\* and the state the filter writes on the root:
\*   aria       aria-label of the article
\*   postTitle, permalink, author, innerSub   attributes of the shreddit-post
\*              (innerSub: its subreddit-prefixed-name)
\*   artSub     subreddit-prefixed-name of the article
\*   attached   the root is in the document
\*   banner     the root's children are the collapse banner alone
\*   isCollapsed, saved   the root's _isCollapsed, and whether
\*              _originalChildren is set
\*   original   the root's _originalChildren: what its child nodes held when
\*              they were cloned
\*   expanded   the root carries data-reddit-filter-expanded="true"
\*   video      "none", or what the root's subtree holds: "video", a <video>
\*              element, or "player", a <shreddit-player> with a <video> in it
\*   playing, currentTime   of that video: whether it plays, and its
\*              position (0, or 1 for any later position)
\*   gen        the copy of the inner shreddit-post that is a child of the
\*              article when no banner is shown: 0 is the page's own element,
\*              every expand appends fresh clones
Article == "ARTICLE"
ShredditPost == "SHREDDIT-POST"

\* An element: the article of post p, or copy gen of its shreddit-post.
Ele(p, tag, gen) == [p |-> p, tag |-> tag, gen |-> gen]

\* No element: the null of querySelector and closest.
NoEle == Ele(0, "none", 0)

\* The root element of post p.
RootOf(d, p) ==
    IF d[p].shape = "S" THEN Ele(p, ShredditPost, 0) ELSE Ele(p, Article, 0)

IsRoot(d, ele) == ele = RootOf(d, ele.p)

\* The shreddit-post that is now a child of the article of post p, if any.
InnerOf(d, p) ==
    IF d[p].shape = "AS" /\ ~d[p].banner THEN Ele(p, ShredditPost, d[p].gen) ELSE NoEle

\* What the child nodes of a root hold: the attributes of the shreddit-post
\* in an article, and nothing the filter reads in the other roots.
KidsOf(inner, postTitle, permalink, author, innerSub) ==
    [inner |-> inner, postTitle |-> postTitle, permalink |-> permalink,
     author |-> author, innerSub |-> innerSub]

\* No shreddit-post among the child nodes.
NoKids == KidsOf(FALSE, Null, Null, Null, Null)

\* htmlElement.childNodes of the root of post p when it shows no banner.
childNodes(d, p) ==
    IF d[p].shape = "AS"
    THEN KidsOf(TRUE, d[p].postTitle, d[p].permalink, d[p].author, d[p].innerSub)
    ELSE NoKids

\* htmlElement.appendChild of the nodes kids to the emptied root of post: an
\* article gets the shreddit-post the nodes hold, if they hold one.
appendKids(post, kids) ==
    IF post.shape = "AS"
    THEN [post EXCEPT !.postTitle = kids.postTitle, !.permalink = kids.permalink,
                      !.author = kids.author, !.innerSub = kids.innerSub,
                      !.shape = IF kids.inner THEN "AS" ELSE "A"]
    ELSE post

\* A mutant of document.contains: every element counts as attached.
documentContainsAlways(d, ele) == TRUE

\* document.contains(ele).
documentContains(d, ele) ==
    /\ d[ele.p].attached
    /\ IsRoot(d, ele) \/ ele = InnerOf(d, ele.p)

\* ele.closest('article'): the element itself when it is an article, else the
\* article it is now a child of; NoEle when there is none.
closestArticle(d, ele) ==
    IF ele.tag = Article THEN ele
    ELSE IF ele = InnerOf(d, ele.p) THEN Ele(ele.p, Article, 0)
    ELSE NoEle

\* ele.querySelector('shreddit-post') on an article.
queryShredditPost(d, ele) == InnerOf(d, ele.p)

\* ele.getAttribute(name) || '' and friends work on these.
Truthy(x) == x # Null /\ x # <<>>
OrEmpty(x) == IF Truthy(x) THEN x ELSE <<>>

\* getAttribute('subreddit-prefixed-name') of an element.
subredditAttr(d, ele) ==
    IF ele.tag = Article THEN d[ele.p].artSub ELSE d[ele.p].innerSub

\* getAttribute('data-reddit-filter-expanded') === 'true' of an element: the
\* mark is set on roots only.
expandedAttr(d, ele) == IsRoot(d, ele) /\ d[ele.p].expanded

RECURSIVE CandidatesFrom(_, _)
\* document.querySelectorAll('article[aria-label], shreddit-post'): the
\* elements of the document in document order, the posts from p on.
CandidatesFrom(d, p) ==
    IF p > Len(d) THEN <<>>
    ELSE LET art == IF d[p].shape # "S" /\ d[p].aria # Null
                    THEN <<Ele(p, Article, 0)>> ELSE <<>>
             inner == IF d[p].shape = "S" THEN <<Ele(p, ShredditPost, 0)>>
                      ELSE IF InnerOf(d, p) # NoEle THEN <<InnerOf(d, p)>>
                      ELSE <<>>
         IN  (IF d[p].attached THEN art \o inner ELSE <<>>) \o CandidatesFrom(d, p + 1)

\* Filter.fetchArticleOrShredditPostsOnPage.
fetchArticleOrShredditPostsOnPage(d) == CandidatesFrom(d, 1)

-----------------------------------------------------------------------------
(* The classifier *)

\* The removal reason, the text of the template string in its parts:
\*   keyword "<arg>" matched  /  blocked subreddit: <arg>  /  '' (kind "none")
\*   /  account too young: <arg> (kind "age", arg the author, the age and the
\*   minimum, a blank between them).
Reason(kind, arg) == [kind |-> kind, arg |-> arg]
NoReason == Reason("none", <<>>)

\* A mutant of isBlockedSubreddit: a block entry that is a prefix of the
\* name blocks it.
isBlockedSubredditPrefix(subredditName, subreddits) ==
    \E j \in DOMAIN subreddits :
        /\ Len(subreddits[j]) <= Len(subredditName)
        /\ toLowerCase(subreddits[j])
             = SubSeq(toLowerCase(subredditName), 1, Len(subreddits[j]))

\* Filter.isBlockedSubreddit.
isBlockedSubreddit(subredditName, subreddits) ==
    \E j \in DOMAIN subreddits :
        toLowerCase(subreddits[j]) = toLowerCase(subredditName)

\* The permalink turned into the Post's url.
UrlOf(permalink) ==
    IF Truthy(permalink)
    THEN <<"h","t","t","p","s",":","/","/","w","w","w",".","r","e","d","d","i","t",".","c","o","m">>
         \o permalink
    ELSE <<>>

\* settings, as stored under filterSettings.
Settings(keywords, subreddits, enabled, minAccountAge, ageEnabled) ==
    [ keywords |-> keywords, subreddits |-> subreddits, enabled |-> enabled,
      minAccountAge |-> minAccountAge, accountAgeFilterEnabled |-> ageEnabled ]

\* The Post convertElementToPost starts from.
NoPost ==
    [ title |-> <<>>, url |-> <<>>, subreddit |-> <<>>, author |-> <<>>,
      tagName |-> "none", matchedKeyword |-> <<>>, shouldRemove |-> FALSE,
      removalReason |-> NoReason ]

\* The variables of the classifier when another specification runs.
ClassifyIdle ==
    /\ cSettings = Settings(<<>>, <<>>, TRUE, 12, FALSE)
    /\ cEle = NoEle
    /\ cPost = NoPost
    /\ cPc = "idle"

\* A mutant of the article branch: the inner post-title, when there is one,
\* stays the title, and the aria-label is the fallback.
articleTitleInnerFirst(d, p, innerTitle) ==
    IF innerTitle # <<>> THEN innerTitle ELSE OrEmpty(d[p].aria)

\* The article branch of convertElementToPost: the title becomes the
\* article's aria-label, whatever the inner post-title was.
articleTitle(d, p, innerTitle) == OrEmpty(d[p].aria)

\* A keyword match recorded on the Post: shouldRemove, matchedKeyword and
\* the keyword reason; a null matchResult leaves the Post as it is.
withKeyword(post, matchResult) ==
    IF Truthy(matchResult)
    THEN [post EXCEPT !.shouldRemove = TRUE,
                      !.matchedKeyword = matchResult,
                      !.removalReason = Reason("keyword", matchResult)]
    ELSE post

\* The Post after the shreddit-post attributes were read: the url from the
\* permalink, the title from post-title.
basePost(d, ele, shredditPost) ==
    [NoPost EXCEPT !.tagName = ele.tag,
                   !.url = IF shredditPost # NoEle THEN UrlOf(d[ele.p].permalink) ELSE <<>>,
                   !.title = IF shredditPost # NoEle THEN OrEmpty(d[ele.p].postTitle)
                             ELSE <<>>]

\* The keyword test of the article branch, on the title the branch has set.
articleMatched(settings, post) ==
    withKeyword(post, findMatchingKeyword(post.title, settings.keywords))

\* if (ele.tagName === 'ARTICLE'): the aria-label becomes the title and is
\* tested for keywords.
articleBranch(d, settings, ele, post) ==
    IF ele.tag = Article
    THEN articleMatched(settings, [post EXCEPT !.title = articleTitle(d, ele.p, @)])
    ELSE post

\* (ele.getAttribute(..) || (shredditPost ? shredditPost.getAttribute(..) : '')) ?? ''
subredditOf(own, rest) ==
    IF Truthy(own) THEN own ELSE IF rest = Null THEN <<>> ELSE rest

\* A mutant of the subreddit branch's reason: the reason of a keyword match
\* found before is kept.
blockedReasonKeepsKeyword(post) ==
    IF post.shouldRemove THEN post.removalReason ELSE Reason("subreddit", post.subreddit)

\* The reason the subreddit branch writes, over whatever reason was there.
blockedReason(post) == Reason("subreddit", post.subreddit)

\* The test of the subreddit branch, on the subreddit the branch has set.
subredditBlocked(settings, post) ==
    IF post.subreddit # <<>> /\ isBlockedSubreddit(post.subreddit, settings.subreddits)
    THEN [post EXCEPT !.shouldRemove = TRUE, !.removalReason = blockedReason(post)]
    ELSE post

\* The subreddit branch: the element's own subreddit-prefixed-name, else the
\* shreddit-post's.
subredditBranch(d, settings, ele, shredditPost, post) ==
    subredditBlocked(settings,
        [post EXCEPT !.subreddit =
            subredditOf(subredditAttr(d, ele),
                        IF shredditPost # NoEle THEN d[ele.p].innerSub ELSE <<>>)])

\* Inside if (parentArticle): the aria-label fills an empty title and is
\* tested for keywords.
parentChecked(settings, ariaLabel, post) ==
    withKeyword([post EXCEPT !.title = IF @ = <<>> THEN ariaLabel ELSE @],
                findMatchingKeyword(ariaLabel, settings.keywords))

\* const parentArticle = ele.closest('article'); if (parentArticle) ...
parentArticleBranch(d, settings, parentArticle, post) ==
    IF parentArticle # NoEle
    THEN parentChecked(settings, OrEmpty(d[parentArticle.p].aria), post)
    ELSE post

\* if (!postInstance.shouldRemove && postInstance.tagName === 'SHREDDIT-POST')
shredditPostBranch(d, settings, ele, post) ==
    IF ~post.shouldRemove /\ ele.tag = ShredditPost
    THEN parentArticleBranch(d, settings, closestArticle(d, ele), post)
    ELSE post

\* convertElementToPost once shredditPost is known: the branches in the
\* order of the code.
convertWith(d, settings, ele, shredditPost) ==
    shredditPostBranch(d, settings, ele,
        subredditBranch(d, settings, ele, shredditPost,
            articleBranch(d, settings, ele, basePost(d, ele, shredditPost))))

\* Filter.convertElementToPost.
convertElementToPost(d, settings, ele) ==
    convertWith(d, settings, ele,
                IF ele.tag = ShredditPost THEN ele ELSE queryShredditPost(d, ele))

-----------------------------------------------------------------------------
(* The store, the Filter instances and the history *)

\* CounterData.
Counters(total, daily, date) ==
    [ totalRemoved |-> total, dailyRemoved |-> daily, lastResetDate |-> date ]

\* The value of a storage key: has is whether the key is set; fails is
\* whether browser.storage.local rejects the calls for it (Rejects).
Stored(val) == [has |-> TRUE, val |-> val, fails |-> FALSE]
NotStored(val) == [has |-> FALSE, val |-> val, fails |-> FALSE]
Rejects == [has |-> FALSE, val |-> <<>>, fails |-> TRUE]

\* DEFAULT_SETTINGS; the default keyword and subreddit lists are data files,
\* empty here.
DefaultSettings == Settings(<<>>, <<>>, TRUE, 12, FALSE)

\* A Filter right after construction, init() suspended at the storage read of
\* loadSettings, whose result is got. pc is where init() stands:
\*   "loadSettings", "saveSettings", "loadCounters", "saveCounters", then
\*   "ready" once init() has returned.
\* pending is elementToPostMapProcessAsync in insertion order; destroyed
\* records that destroy() was called.
NewFilter(day, got) ==
    [ pc |-> "loadSettings", got |-> got,
      settings |-> DefaultSettings,
      counters |-> Counters(0, 0, day),
      userAgeCache |-> << >>,
      pendingRequests |-> {},
      observer |-> FALSE, timer |-> FALSE,
      pending |-> << >>,
      destroyed |-> FALSE ]

\* The history of one post.
NoHistory == [collapses |-> 0, incs |-> 0]

\* The result slot of a storage read that is not under way.
NoRead == [has |-> FALSE, val |-> <<>>, fails |-> FALSE]

\* The handler that ran last: kind "pass" for a rescan by the observer of
\* Filter inst that found the list of candidates unchanged, "tick" for the
\* interval of Filter inst, the kind of the response ("throw", "notOk",
\* "noTime", "invalid", "date") for a fetch of Filter inst that returned,
\* "loadFailed" for a storage read of Filter inst that was rejected,
\* "toggle" for a click on the banner of post inst, "ageOn", "ageOff" and
\* "ageOffCleared" for an accountAgeFilterToggled message to Filter inst (the
\* last when the pending map held entries), "other" for every other handler.
Act(kind, i) == [kind |-> kind, inst |-> i]

\* The variables of the running extension when another specification runs.
RunIdle ==
    /\ storeSettings = NotStored(DefaultSettings)
    /\ storeCounters = NotStored(Counters(0, 0, 0))
    /\ today = 0
    /\ now = 0
    /\ insts = << >>
    /\ filter = 0
    /\ loaded = FALSE
    /\ procs = << >>
    /\ popup = [pc |-> "closed", got |-> NoRead]
    /\ hist = << >>
    /\ lastAct = Act("none", 0)

-----------------------------------------------------------------------------
(* Collapse, counters and the synchronous pass. The synchronous code of a   *)
(* handler runs on a record st of what it reads and writes: the page (dom), *)
(* the Filter (inst), the stored counters (store) and the history (hist).   *)

\* A mutant of the saving of the children: they are copied after the root
\* was emptied.
originalChildrenOfEmptied(d, p) == NoKids

\* Array.from(htmlElement.childNodes).map(node => node.cloneNode(true)): the
\* clones hold what the child nodes hold.
originalChildren(d, p) == childNodes(d, p)

\* A mutant of pauseVideosInPost: the videos are left as they are.
pauseVideosInPostNothing(post) == post

\* Filter.pauseVideosInPost on the root of a post: querySelectorAll('video')
\* finds the video of the subtree, also the one inside a shreddit-player,
\* which the second loop visits once more; each is paused and set to 0.
pauseVideosInPost(post) ==
    IF post.video \in {"video", "player"}
    THEN [post EXCEPT !.playing = FALSE, !.currentTime = 0]
    ELSE post

\* Filter.collapsePost, the state it leaves. Nothing changes when the element
\* is not in the document or its root already shows a banner; else the root's
\* children are saved as clones and replaced by the banner.
collapsePostState(st, ele) ==
    LET p == ele.p IN
    IF ~documentContains(st.dom, ele) \/ st.dom[p].banner THEN st
    ELSE [st EXCEPT !.dom[p] = [pauseVideosInPost(@) EXCEPT
                                   !.banner = TRUE,
                                   !.isCollapsed = TRUE,
                                   !.saved = TRUE,
                                   !.original = originalChildren(st.dom, p)],
                    !.hist[p].collapses = @ + 1]

\* Filter.collapsePost, its return value: wasCollapsed.
collapsePostResult(st, ele) ==
    documentContains(st.dom, ele) /\ ~st.dom[ele.p].banner

\* Filter.saveCounters: the counters as they are now go to the store; a
\* write that is rejected is caught and logged.
saveCounters(st) ==
    IF st.store.fails THEN st
    ELSE [st EXCEPT !.store = Stored(st.inst.counters)]

\* A mutant of incrementCounters: the lifetime counter is left alone.
incrementDailyOnly(st, p) ==
    saveCounters([st EXCEPT !.inst.counters.dailyRemoved = @ + 1,
                            !.hist[p].incs = @ + 1])

\* Filter.incrementCounters, called for a collapse of post p.
incrementCounters(st, p) ==
    saveCounters([st EXCEPT !.inst.counters.totalRemoved = @ + 1,
                            !.inst.counters.dailyRemoved = @ + 1,
                            !.hist[p].incs = @ + 1])

\* A mutant of the caller's test: the counters are incremented whether or
\* not the post was collapsed.
afterCollapseAlways(before, after, ele, wasCollapsed) ==
    incrementCounters(after, ele.p)

\* if (wasCollapsed) this.incrementCounters(), after a collapsePost call that
\* took the state from before to after.
afterCollapse(before, after, ele, wasCollapsed) ==
    IF wasCollapsed THEN incrementCounters(after, ele.p) ELSE after

\* Filter.hideElementOrClosestParentArticle followed by the caller's test.
hideAndCount(st, ele) ==
    afterCollapse(st, collapsePostState(st, ele), ele, collapsePostResult(st, ele))

\* The text collapsePost puts on the banner it builds, `Post filtered:
\* ${reason}`, after a collapsePost call that took the state from before to
\* after.
bannerText(before, after, ele, reason) ==
    IF collapsePostResult(before, ele)
    THEN [after EXCEPT !.dom[ele.p].reason = reason]
    ELSE after

\* hideElementOrClosestParentArticle(ele, reason) and the caller's test.
hideAndCountFor(st, ele, reason) ==
    bannerText(st, hideAndCount(st, ele), ele, reason)

\* Map.prototype.set on elementToPostMapProcessAsync: a key already in the
\* map keeps its place.
mapSet(pending, ele, post) ==
    IF \E k \in DOMAIN pending : pending[k].ele = ele
    THEN [k \in DOMAIN pending |->
            IF pending[k].ele = ele THEN [ele |-> ele, post |-> post] ELSE pending[k]]
    ELSE Append(pending, [ele |-> ele, post |-> post])

\* Map.prototype.delete.
mapDelete(pending, ele) == SelectSeq(pending, LAMBDA entry : entry.ele # ele)

\* The element whose expanded mark a pass looks at: ele.closest('article') || ele.
articleParentOf(d, ele) ==
    IF ele.tag = Article \/ ele = InnerOf(d, ele.p) THEN closestArticle(d, ele) ELSE ele

\* A mutant of the pass's last branch: every candidate that is not removed is
\* queued, whether the account-age filter is on or not.
enqueueAlways(st, ele, post) ==
    [st EXCEPT !.inst.pending = mapSet(@, ele, post)]

\* The else-branch of the pass: a candidate that is not removed is queued for
\* age resolution when the account-age filter is on.
enqueueIfAgeFilter(st, ele, post) ==
    IF st.inst.settings.accountAgeFilterEnabled
    THEN [st EXCEPT !.inst.pending = mapSet(@, ele, post)]
    ELSE st

\* The pass's branches on the Post of an element: collapse and count, else
\* queue.
passVerdict(st, ele, post) ==
    IF post.shouldRemove THEN hideAndCountFor(st, ele, post.removalReason)
    ELSE enqueueIfAgeFilter(st, ele, post)

\* The body of removePostsFirstPass's forEach for one element.
passElement(st, ele) ==
    IF expandedAttr(st.dom, articleParentOf(st.dom, ele)) THEN st
    ELSE passVerdict(st, ele, convertElementToPost(st.dom, st.inst.settings, ele))

RECURSIVE passFrom(_, _, _)
\* forEach over the static NodeList eles, from its k-th element on.
passFrom(st, eles, k) ==
    IF k > Len(eles) THEN st
    ELSE passFrom(passElement(st, eles[k]), eles, k + 1)

\* Filter.removePostsFirstPass.
removePostsFirstPass(st) ==
    passFrom(st, fetchArticleOrShredditPostsOnPage(st.dom), 1)

\* A mutant of updateAsyncProcessor: the pending map is left as it is when
\* the interval is stopped.
updateAsyncProcessorKeepsMap(inst) ==
    [inst EXCEPT !.timer = inst.settings.accountAgeFilterEnabled]

\* Filter.updateAsyncProcessor: the interval is cleared, and set again when
\* the account-age filter is on; when it is off the pending map is cleared.
updateAsyncProcessor(inst) ==
    IF inst.settings.accountAgeFilterEnabled
    THEN [inst EXCEPT !.timer = TRUE]
    ELSE [inst EXCEPT !.timer = FALSE, !.pending = << >>]

\* A mutant of initTail: the first pass, the observer and the timer whether
\* or not the filter is enabled.
initTailAlways(st) ==
    [removePostsFirstPass(st) EXCEPT
        !.inst = updateAsyncProcessor([@ EXCEPT !.observer = TRUE, !.pc = "ready"])]

\* The end of Filter.init, after both loads: the first pass, the observer and
\* the timer when the filter is enabled.
initTail(st) ==
    IF st.inst.settings.enabled
    THEN [removePostsFirstPass(st) EXCEPT
            !.inst = updateAsyncProcessor([@ EXCEPT !.observer = TRUE, !.pc = "ready"])]
    ELSE [st EXCEPT !.inst.pc = "ready"]

-----------------------------------------------------------------------------
(* The periodic pass and the account lookup *)

\* The batch of removePostsSecondPass (batchSize).
BatchSize == 5

\* The cache lifetime of fetchUserProfile, 3600000 ms, in minutes.
CacheMinutes == 60

\* Ten times the minutes of the month of isAccountTooYoung: 30.44 days.
TenMonthMinutes == 438336

\* What fetchUserProfile hands back: null, an Invalid Date (new Date of a
\* datetime attribute that is no date), or a date, t minutes on the clock.
NullDate == [kind |-> "null", t |-> 0]
InvalidDate == [kind |-> "invalid", t |-> 0]
DateAt(t) == [kind |-> "date", t |-> t]

\* A mutant of isAccountTooYoung: every account is too young.
isAccountTooYoungAlways(createdAt, minAccountAge, clock) == TRUE

\* Filter.isAccountTooYoung: the age in months, minutes / 43833.6, is below
\* the minimum; the comparison with the NaN of an Invalid Date is false.
isAccountTooYoung(createdAt, minAccountAge, clock) ==
    /\ createdAt.kind = "date"
    /\ (clock - createdAt.t) * 10 < minAccountAge * TenMonthMinutes

\* A mutant of the cache test: an entry is answered from however old it is.
cacheIsFreshAlways(inst, user, clock) == user \in DOMAIN inst.userAgeCache

\* The cache entry fetchUserProfile may answer from.
cacheIsFresh(inst, user, clock) ==
    /\ user \in DOMAIN inst.userAgeCache
    /\ clock - inst.userAgeCache[user].fetchedAt < CacheMinutes

\* A mutant of the in-flight test: no request is ever seen as pending.
requestPendingNever(inst, user) == FALSE

\* this.pendingRequests.has(username): a call for the user is under way.
requestPending(inst, user) == user \in inst.pendingRequests

\* this.userAgeCache[username] = {createdAt, fetchedAt}.
cachePut(cache, user, createdAt, clock) ==
    [u \in DOMAIN cache \cup {user} |->
        IF u = user THEN [createdAt |-> createdAt, fetchedAt |-> clock] ELSE cache[u]]

\* The decimal digits of a number that is not negative, as String(n) writes
\* them.
DigitOf(n) == <<"0", "1", "2", "3", "4", "5", "6", "7", "8", "9">>[n + 1]

RECURSIVE numberToString(_)
numberToString(n) ==
    IF n < 10 THEN <<DigitOf(n)>>
    ELSE Append(numberToString(n \div 10), DigitOf(n % 10))

\* The tenths of a month in the age of an account, rounded as toFixed(1)
\* rounds: (minutes / 43833.6) * 10 to the nearest integer.
ageInTenthsOfMonths(createdAt, clock) ==
    ((clock - createdAt.t) * 200 + TenMonthMinutes) \div (2 * TenMonthMinutes)

\* ageInMonths.toFixed(1) from the tenths.
toFixed1(tenths) ==
    numberToString(tenths \div 10) \o <<".">> \o <<DigitOf(tenths % 10)>>

\* post.removalReason of parseAuthorFromElementCalcAge:
\* `account too young: ${author} (${age} months old, minimum: ${minimum})`.
ageReason(author, createdAt, minAccountAge, clock) ==
    Reason("age", author \o <<" ">> \o toFixed1(ageInTenthsOfMonths(createdAt, clock))
                         \o <<" ">> \o numberToString(minAccountAge))

\* A mutant of the age verdict: an answer of null counts as too young.
ageVerdictUnknownYoung(st, ele, createdAt, clock) ==
    IF \/ createdAt.kind = "null"
       \/ isAccountTooYoung(createdAt, st.inst.settings.minAccountAge, clock)
    THEN hideAndCountFor(st, ele, Reason("age", st.dom[ele.p].author))
    ELSE st

\* A mutant of the age verdict: the post is collapsed and nothing is counted.
ageVerdictUncounted(st, ele, createdAt, clock) ==
    IF /\ createdAt.kind # "null"
       /\ isAccountTooYoung(createdAt, st.inst.settings.minAccountAge, clock)
    THEN collapsePostState(st, ele)
    ELSE st

\* The rest of parseAuthorFromElementCalcAge once fetchUserProfile has
\* answered createdAt: a date that is too young collapses the post, and a
\* collapse that happened is counted. null is falsy, an Invalid Date is not.
ageVerdict(st, ele, createdAt, clock) ==
    IF /\ createdAt.kind # "null"
       /\ isAccountTooYoung(createdAt, st.inst.settings.minAccountAge, clock)
    THEN hideAndCountFor(st, ele, ageReason(st.dom[ele.p].author, createdAt,
                                            st.inst.settings.minAccountAge, clock))
    ELSE st

\* The author attribute parseAuthorFromElementCalcAge reads: only a
\* shreddit-post is looked at.
authorOf(d, entry) ==
    IF entry.post.tagName = ShredditPost THEN OrEmpty(d[entry.ele.p].author) ELSE <<>>

\* A suspended or finished removePostsSecondPass: the state its synchronous
\* code left, the batch, the index of the entry it stands at, and whether it
\* is suspended at the fetch for user.
TickOutcome(st, k, waiting, user) ==
    [st |-> st, k |-> k, waiting |-> waiting, user |-> user]

RECURSIVE tickFrom(_, _, _, _)
\* The loop of removePostsSecondPass from the k-th entry of the batch on,
\* up to its end or to the first fetch it has to wait for.
tickFrom(st, batch, k, clock) ==
    IF k > Len(batch) THEN TickOutcome(st, k, FALSE, <<>>)
    ELSE LET ele == batch[k].ele
             dropped == [st EXCEPT !.inst.pending = mapDelete(@, ele)]
             user == authorOf(st.dom, batch[k])
         IN  IF ~documentContains(st.dom, ele) THEN tickFrom(dropped, batch, k + 1, clock)
             ELSE IF expandedAttr(st.dom, articleParentOf(st.dom, ele))
                  THEN tickFrom(dropped, batch, k + 1, clock)
             ELSE IF user = <<>> THEN tickFrom(dropped, batch, k + 1, clock)
             ELSE IF cacheIsFresh(st.inst, user, clock)
                  THEN LET st1 == ageVerdict(st, ele, st.inst.userAgeCache[user].createdAt, clock)
                       IN  tickFrom([st1 EXCEPT !.inst.pending = mapDelete(@, ele)],
                                    batch, k + 1, clock)
             ELSE IF requestPending(st.inst, user)
                  THEN tickFrom(dropped, batch, k + 1, clock)
             ELSE TickOutcome([st EXCEPT !.inst.pendingRequests = @ \cup {user}],
                              k, TRUE, user)

\* A mutant of the batch: every entry of the map is taken.
batchOfAll(pending) == pending

\* entries.slice(0, batchSize) of the map's entries in insertion order.
batchOf(pending) ==
    SubSeq(pending, 1, IF Len(pending) < BatchSize THEN Len(pending) ELSE BatchSize)

\* Filter.removePostsSecondPass, from the timer to its first fetch.
removePostsSecondPass(st, clock) ==
    IF ~st.inst.settings.accountAgeFilterEnabled
    THEN TickOutcome(st, 1, FALSE, <<>>)
    ELSE tickFrom(st, batchOf(st.inst.pending), 1, clock)

\* A mutant of fetchUserProfileDone: the user leaves pendingRequests only
\* when a creation date came back.
fetchUserProfileDoneOnSuccess(inst, user, resp, clock) ==
    IF resp.createdAt.kind = "null" THEN inst
    ELSE [inst EXCEPT !.pendingRequests = @ \ {user},
                      !.userAgeCache = cachePut(@, user, resp.createdAt, clock)]

\* fetchUserProfile after the fetch (the awaits of fetch and of
\* response.text() taken as one): a creation date, an Invalid Date too, is
\* cached, and the user leaves pendingRequests whatever the outcome.
fetchUserProfileDone(inst, user, resp, clock) ==
    [inst EXCEPT !.pendingRequests = @ \ {user},
                 !.userAgeCache = IF resp.createdAt.kind # "null"
                                  THEN cachePut(@, user, resp.createdAt, clock) ELSE @]

\* What fetchUserProfile returns after the fetch: the creation date; null
\* when the fetch failed or no date was found, and null too for an Invalid
\* Date, whose toISOString() throws into the catch.
fetchUserProfileResult(resp) ==
    IF resp.createdAt.kind = "date" THEN resp.createdAt ELSE NullDate

\* A mutant of the end of the loop body: the entry stays in the map.
tickNextKeepsEntry(st, batch, k, clock) == tickFrom(st, batch, k + 1, clock)

\* The entry of the batch leaves the map and the loop goes on.
tickNext(st, batch, k, clock) ==
    tickFrom([st EXCEPT !.inst.pending = mapDelete(@, batch[k].ele)], batch, k + 1, clock)

\* removePostsSecondPass resumes with the answer of the fetch it waited for:
\* the verdict on the entry, the entry's removal from the map, then the rest
\* of the batch.
resumeSecondPass(st, batch, k, user, resp, clock) ==
    tickNext(ageVerdict([st EXCEPT !.inst = fetchUserProfileDone(@, user, resp, clock)],
                        batch[k].ele, fetchUserProfileResult(resp), clock),
             batch, k, clock)

\* Filter.destroy.
destroy(inst) == [inst EXCEPT !.observer = FALSE, !.timer = FALSE, !.destroyed = TRUE]

-----------------------------------------------------------------------------
(* SpecClassify: convertElementToPost applied to every small page *)

Str_crypto == <<"c", "r", "y", "p", "t", "o">>
Str_best == <<"b", "e", "s", "t">>
Str_BestCryptocurrencyTips == <<"B", "e", "s", "t", " ", "c", "r", "y", "p", "t", "o", "c", "u", "r", "r", "e", "n", "c", "y", " ", "t", "i", "p", "s">>
Str_BestCryptoTips == <<"B", "e", "s", "t", " ", "C", "R", "Y", "P", "T", "O", " ", "t", "i", "p", "s">>
Str_BestCryptoart == <<"B", "e", "s", "t", " ", "C", "r", "y", "p", "t", "o", "a", "r", "t">>
Str_CryptoNow == <<"C", "r", "y", "p", "t", "o", " ", "n", "o", "w">>
Str_Hello == <<"H", "e", "l", "l", "o">>
Str_rSpam == <<"r", "/", "s", "p", "a", "m">>
Str_RSpamUpper == <<"R", "/", "S", "p", "a", "m">>
Str_rSpammy == <<"r", "/", "s", "p", "a", "m", "m", "y">>
Str_rOk == <<"r", "/", "o", "k">>
Str_permalink == <<"/", "r", "/", "o", "k", "/", "1">>
Str_alice == <<"a", "l", "i", "c", "e">>
Str_bob == <<"b", "o", "b">>
Str_carol == <<"c", "a", "r", "o", "l">>

\* The titles (aria-label, post-title) of the model's pages.
Titles ==
    { Str_BestCryptocurrencyTips, Str_BestCryptoTips, Str_BestCryptoart, Str_Hello }

\* The subreddit-prefixed-name values of the model's pages.
SubredditNames == { Str_rSpam, Str_RSpamUpper, Str_rSpammy, Str_rOk }

\* The RuleSets SpecClassify reads.
ClassifySettings ==
    { Settings(<<Str_crypto>>, <<Str_rSpam>>, TRUE, 12, FALSE),
      Settings(<<Str_best, Str_crypto>>, <<Str_RSpamUpper>>, TRUE, 12, FALSE),
      Settings(<<>>, <<Str_rOk, Str_rSpam>>, TRUE, 12, FALSE),
      Settings(<<Str_crypto>>, <<>>, TRUE, 12, FALSE) }

\* A post as the page delivers it: attached, never collapsed.
FreshPost(shape, aria, postTitle, artSub, innerSub, author) ==
    [ shape |-> shape, aria |-> aria, postTitle |-> postTitle,
      permalink |-> Str_permalink, author |-> author,
      artSub |-> artSub, innerSub |-> innerSub,
      attached |-> TRUE, banner |-> FALSE, isCollapsed |-> FALSE,
      saved |-> FALSE, expanded |-> FALSE, gen |-> 0, reason |-> NoReason,
      original |-> NoKids,
      video |-> "none", playing |-> FALSE, currentTime |-> 0 ]

\* Every post SpecClassify classifies. An article selected by
\* article[aria-label] has an aria-label, possibly empty; the article of an
\* "AS" post may have none; a post without a shreddit-post has none of its
\* attributes.
ClassifyPosts ==
    { FreshPost("AS", aria, title, artSub, innerSub, Str_alice) :
        aria \in Titles \cup {<<>>, Null}, title \in Titles \cup {<<>>, Null},
        artSub \in {Null, Str_rSpam, Str_rOk},
        innerSub \in SubredditNames \cup {<<>>, Null} }
    \cup { FreshPost("A", aria, Null, artSub, Null, Null) :
        aria \in Titles \cup {<<>>}, artSub \in SubredditNames \cup {<<>>, Null} }
    \cup { FreshPost("S", Null, title, Null, innerSub, Str_alice) :
        title \in Titles \cup {<<>>, Null}, innerSub \in SubredditNames \cup {<<>>, Null} }

InitClassify ==
    /\ MatchIdle
    /\ RunIdle
    /\ dom \in { <<post>> : post \in ClassifyPosts }
    /\ cSettings \in ClassifySettings
    /\ cEle = NoEle
    /\ cPost = NoPost
    /\ cPc = "input"

\* The call convertElementToPost(ele) on a candidate of the page.
Classify ==
    /\ cPc = "input"
    /\ \E k \in DOMAIN fetchArticleOrShredditPostsOnPage(dom) :
         LET ele == fetchArticleOrShredditPostsOnPage(dom)[k] IN
         /\ cEle' = ele
         /\ cPost' = convertElementToPost(dom, cSettings, ele)
    /\ cPc' = "done"
    /\ UNCHANGED <<matchVars, dom, cSettings, runVars>>

NextClassify == Classify

SpecClassify == InitClassify /\ [][NextClassify]_vars

-----------------------------------------------------------------------------
(* SpecMatch: findMatchingKeyword applied to every short title *)

\* The longest title SpecMatch draws.
MaxTitleLen == 4

\* The characters of SpecMatch's titles: letters in both cases, a blank, and
\* two regular-expression metacharacters that are not word characters.
TitleChars == {"a", "b", "A", " ", ".", "+"}

RECURSIVE SeqsUpTo(_, _)
SeqsUpTo(S, n) ==
    IF n = 0 THEN {<<>>}
    ELSE LET shorter == SeqsUpTo(S, n - 1) IN
         shorter \cup {Append(s, c) : s \in {t \in shorter : Len(t) = n - 1}, c \in S}

\* The keywords SpecMatch configures: plain words, mixed case, metacharacters
\* inside, at the start and at the end.
MatchKeywords ==
    { <<"a">>, <<"a", "b">>, <<"A", "b">>, <<"b">>,
      <<"a", ".", "b">>, <<"a", "+">>, <<"+", "a">>, <<".">>, <<"a", " ", "b">> }

\* settings.keywords in SpecMatch: every single keyword, and some lists of two.
MatchKeywordLists ==
    { <<k>> : k \in MatchKeywords }
    \cup { <<"a", "b">> , <<"b">> } \X { <<"a">>, <<"a", "+">> }

InitMatch ==
    /\ dom = <<>>
    /\ ClassifyIdle
    /\ RunIdle
    /\ mTitle \in SeqsUpTo(TitleChars, MaxTitleLen)
    /\ mKeywords \in MatchKeywordLists
    /\ mResult = Null
    /\ mPc = "input"

\* The call findMatchingKeyword(mTitle).
Match ==
    /\ mPc = "input"
    /\ mResult' = findMatchingKeyword(mTitle, mKeywords)
    /\ mPc' = "done"
    /\ UNCHANGED <<mTitle, mKeywords, dom, classifyVars, runVars>>

NextMatch == Match

SpecMatch == InitMatch /\ [][NextMatch]_vars

-----------------------------------------------------------------------------
(* Spec: the content script on a page, the store and the popup *)

\* Bounds of the model.
MaxPosts == 2
MaxInsts == 2
MaxDay == 1
MaxExpands == 1
MaxProcs == 2

\* A post of the running page: short texts, no permalink.
PagePost(shape, aria, postTitle, innerSub, author) ==
    [FreshPost(shape, aria, postTitle, Null, innerSub, author) EXCEPT !.permalink = Null]

\* The posts the page delivers: a keyword match, a blocked subreddit given
\* by the inner post, two posts no rule matches (inside an article and on its
\* own), and a blocked shreddit-post on its own.
PagePosts ==
    { PagePost("AS", Str_CryptoNow, Str_CryptoNow, Str_rOk, Str_alice),
      PagePost("AS", Str_Hello, Str_Hello, Str_RSpamUpper, Str_bob),
      PagePost("AS", Str_Hello, Str_Hello, Str_rOk, Str_alice),
      PagePost("S", Null, Str_Hello, Str_rOk, Str_bob),
      PagePost("S", Null, Str_CryptoNow, Str_rSpam, Str_alice) }

\* The settings the popup stores.
RunSettings ==
    { Settings(<<Str_crypto>>, <<Str_rSpam>>, TRUE, 12, FALSE),
      Settings(<<Str_crypto>>, <<Str_rSpam>>, TRUE, 12, TRUE) }

\* What the store may hold under filterCounters when the page opens:
\* nothing, or counters with dailyRemoved <= totalRemoved.
InitialCounters ==
    { NotStored(Counters(0, 0, 0)), Stored(Counters(2, 1, 0)), Stored(Counters(1, 1, 0)) }

Init ==
    /\ MatchIdle
    /\ ClassifyIdle
    /\ dom \in { <<post>> : post \in PagePosts }
    /\ hist = <<NoHistory>>
    /\ storeSettings \in { Stored(x) : x \in RunSettings } \cup { NotStored(DefaultSettings) }
    /\ storeCounters \in { NotStored(Counters(0, 0, 0)), Stored(Counters(2, 1, 0)) }
    /\ today = 0
    /\ now = 0
    /\ insts = << >>
    /\ filter = 0
    /\ loaded = FALSE
    /\ procs = << >>
    /\ popup = [pc |-> "closed", got |-> NoRead]
    /\ lastAct = Act("none", 0)

\* The state a handler of Filter i starts from.
StateOf(i) == [dom |-> dom, inst |-> insts[i], store |-> storeCounters, hist |-> hist]

\* The state a handler of Filter i ends in becomes the next state.
Commit(i, st) ==
    /\ dom' = st.dom
    /\ insts' = [insts EXCEPT ![i] = st.inst]
    /\ storeCounters' = st.store
    /\ hist' = st.hist

\* main(): a new Filter whose init() has issued the read of filterSettings.
main(instances) == Append(instances, NewFilter(today, storeSettings))

\* The page's first main() call: at script start or on the load event.
MainOnLoad ==
    /\ ~loaded
    /\ Len(insts) < MaxInsts
    /\ loaded' = TRUE
    /\ insts' = main(insts)
    /\ filter' = Len(insts) + 1
    /\ lastAct' = Act("other", 0)
    /\ UNCHANGED <<matchVars, classifyVars, dom, storeVars, today, now, procs, popup, hist>>

\* The popup stores settings s and the settingsUpdated message arrives:
\* the running Filter is destroyed and main() runs.
SettingsUpdated(s) ==
    /\ Len(insts) < MaxInsts
    /\ storeSettings' = Stored(s)
    /\ insts' = Append(IF filter = 0 THEN insts
                       ELSE [insts EXCEPT ![filter] = destroy(@)],
                       NewFilter(today, Stored(s)))
    /\ filter' = Len(insts) + 1
    /\ lastAct' = Act("other", 0)
    /\ UNCHANGED <<matchVars, classifyVars, dom, storeCounters, today, now, loaded,
                   procs, popup, hist>>

\* A mutant of loadSettingsFailed: the rejection is not caught and init()
\* ends there.
loadSettingsFailedEndsInit(inst, counters) == [inst EXCEPT !.pc = "ready", !.got = NoRead]

\* loadSettings when its read was rejected: the catch logs, the settings stay
\* as they are and init() goes on to loadCounters, which issues its read.
loadSettingsFailed(inst, counters) ==
    [inst EXCEPT !.pc = "loadCounters", !.got = counters]

\* Filter.saveSettings: the settings go to the store; a write that is
\* rejected is caught and logged.
saveSettings(store, settings) == IF store.fails THEN store ELSE Stored(settings)

\* loadSettings resumes with the result of its read. Stored settings replace
\* the defaults and loadCounters issues its read; with nothing stored the
\* defaults are saved first; a rejected read leaves the defaults.
LoadSettingsDone(i) ==
    /\ insts[i].pc = "loadSettings"
    /\ IF insts[i].got.fails
       THEN /\ insts' = [insts EXCEPT ![i] = loadSettingsFailed(@, storeCounters)]
            /\ UNCHANGED storeSettings
       ELSE IF insts[i].got.has
       THEN /\ insts' = [insts EXCEPT ![i].settings = insts[i].got.val,
                                      ![i].pc = "loadCounters",
                                      ![i].got = storeCounters]
            /\ UNCHANGED storeSettings
       ELSE /\ insts' = [insts EXCEPT ![i].pc = "saveSettings"]
            /\ storeSettings' = saveSettings(storeSettings, insts[i].settings)
    /\ lastAct' = IF insts[i].got.fails THEN Act("loadFailed", i) ELSE Act("other", 0)
    /\ UNCHANGED <<matchVars, classifyVars, dom, storeCounters, today, now, filter, loaded,
                   procs, popup, hist>>

\* saveSettings has written; loadCounters issues its read.
SaveSettingsDone(i) ==
    /\ insts[i].pc = "saveSettings"
    /\ insts' = [insts EXCEPT ![i].pc = "loadCounters", ![i].got = storeCounters]
    /\ lastAct' = Act("other", 0)
    /\ UNCHANGED <<matchVars, classifyVars, dom, storeVars, today, now, filter, loaded,
                   procs, popup, hist>>

\* A mutant of the rollover: the daily counter survives the new day.
rolloverKeepsDaily(counters, day) == [counters EXCEPT !.lastResetDate = day]

\* The daily rollover of loadCounters.
rollover(counters, day) ==
    [counters EXCEPT !.dailyRemoved = 0, !.lastResetDate = day]

\* The counters loadCounters leaves in the Filter once its read has answered
\* got: stored counters replace the fresh ones, and on a new day the daily
\* counter is reset.
countersLoaded(inst, day) ==
    IF inst.got.fails \/ ~inst.got.has THEN inst.counters
    ELSE IF inst.got.val.lastResetDate # day THEN rollover(inst.got.val, day)
    ELSE inst.got.val

\* loadCounters awaits saveCounters on a new day and when nothing is stored.
savesOnLoad(inst, day) ==
    ~inst.got.fails /\ (~inst.got.has \/ inst.got.val.lastResetDate # day)

\* init() after the read of loadCounters: the save when there is one, else
\* the rest of init() at once.
afterCountersLoaded(st, saves) ==
    IF saves THEN saveCounters([st EXCEPT !.inst.pc = "saveCounters"])
    ELSE initTail(st)

\* loadCounters resumes with the result of its read.
LoadCountersDone(i) ==
    /\ insts[i].pc = "loadCounters"
    /\ Commit(i, afterCountersLoaded(
                    [StateOf(i) EXCEPT !.inst.counters = countersLoaded(insts[i], today),
                                       !.inst.got = NoRead],
                    savesOnLoad(insts[i], today)))
    /\ lastAct' = IF insts[i].got.fails THEN Act("loadFailed", i) ELSE Act("other", 0)
    /\ UNCHANGED <<matchVars, classifyVars, storeSettings, today, now, filter, loaded,
                   procs, popup>>

\* saveCounters has written; init() goes on to the first pass.
SaveCountersDone(i) ==
    /\ insts[i].pc = "saveCounters"
    /\ Commit(i, initTail(StateOf(i)))
    /\ lastAct' = Act("other", 0)
    /\ UNCHANGED <<matchVars, classifyVars, storeSettings, today, now, filter, loaded,
                   procs, popup>>

\* The MutationObserver callback of Filter i after an insertion that brings
\* an article or a shreddit-post: removePostsFirstPass.
observerPass(st) == IF st.inst.observer THEN removePostsFirstPass(st) ELSE st

RECURSIVE observersFrom(_, _, _, _, _)
\* The callbacks of the Filters after Filter i, whose callback left st.
observersAfter(instances, i, st) ==
    observersFrom(st.dom, [instances EXCEPT ![i] = st.inst], st.store, st.hist, i + 1)

\* Every Filter's observer callback, in order of construction, from Filter i
\* on; the result is the page, the Filters, the stored counters, the history.
observersFrom(d, instances, store, h, i) ==
    IF i > Len(instances)
    THEN [dom |-> d, insts |-> instances, store |-> store, hist |-> h]
    ELSE observersAfter(instances, i,
            observerPass([dom |-> d, inst |-> instances[i], store |-> store, hist |-> h]))

CommitAll(all) ==
    /\ dom' = all.dom
    /\ insts' = all.insts
    /\ storeCounters' = all.store
    /\ hist' = all.hist

\* The page inserts a post; the observers rescan.
InsertPost(post) ==
    /\ Len(dom) < MaxPosts
    /\ CommitAll(observersFrom(Append(dom, post), insts, storeCounters,
                               Append(hist, NoHistory), 1))
    /\ lastAct' = Act("other", 0)
    /\ UNCHANGED <<matchVars, classifyVars, storeSettings, today, now, filter, loaded,
                   procs, popup>>

\* The page inserts an article or a shreddit-post that brings no new
\* candidate into the list; the observer of Filter i rescans.
Rescan(i) ==
    /\ insts[i].observer
    /\ Commit(i, removePostsFirstPass(StateOf(i)))
    /\ lastAct' = Act("pass", i)
    /\ UNCHANGED <<matchVars, classifyVars, storeSettings, today, now, filter, loaded,
                   procs, popup>>

\* togglePost, the click handler of the banner and of its button, on the
\* root of post p.
togglePost(d, p) ==
    IF d[p].isCollapsed
    THEN [d EXCEPT ![p] = [appendKids(@, @.original) EXCEPT
                               !.banner = FALSE, !.isCollapsed = FALSE,
                               !.expanded = TRUE, !.gen = @ + 1,
                               !.playing = FALSE, !.currentTime = 0]]
    ELSE [d EXCEPT ![p] = [pauseVideosInPost(@) EXCEPT
                              !.banner = TRUE, !.isCollapsed = TRUE, !.expanded = FALSE]]

\* The user clicks the banner of post p, which is in the document. The
\* restored children of an article hold a shreddit-post, so the observers
\* rescan.
UserToggle(p) ==
    /\ dom[p].attached /\ dom[p].banner
    /\ dom[p].gen < MaxExpands
    /\ LET d == togglePost(dom, p) IN
       IF d[p].shape = "AS" /\ ~d[p].banner
       THEN CommitAll(observersFrom(d, insts, storeCounters, hist, 1))
       ELSE dom' = d /\ UNCHANGED <<insts, storeCounters, hist>>
    /\ lastAct' = Act("toggle", p)
    /\ UNCHANGED <<matchVars, classifyVars, storeSettings, today, now, filter, loaded,
                   procs, popup>>

\* Midnight passes.
NewDay ==
    /\ today < MaxDay
    /\ today' = today + 1
    /\ lastAct' = Act("other", 0)
    /\ UNCHANGED <<matchVars, classifyVars, dom, storeVars, now, insts, filter, loaded,
                   procs, popup, hist>>

\* The popup opens: its loadCounters issues the read of filterCounters.
PopupOpen ==
    /\ popup.pc = "closed"
    /\ popup' = [pc |-> "loading", got |-> storeCounters]
    /\ lastAct' = Act("other", 0)
    /\ UNCHANGED <<matchVars, classifyVars, dom, storeVars, today, now, insts, filter,
                   loaded, procs, hist>>

\* The popup's loadCounters resumes: on a new day it resets the daily counter
\* of what it read and saves it.
PopupLoadDone ==
    /\ popup.pc = "loading"
    /\ popup' = [pc |-> "closed", got |-> NoRead]
    /\ storeCounters' = IF popup.got.has /\ popup.got.val.lastResetDate # today
                        THEN Stored(rollover(popup.got.val, today))
                        ELSE storeCounters
    /\ lastAct' = Act("other", 0)
    /\ UNCHANGED <<matchVars, classifyVars, dom, storeSettings, today, now, insts, filter,
                   loaded, procs, hist>>

\* The creation dates the profile endpoint knows: alice's account is 3
\* months old when the clock starts, carol's 5 months to the minute, bob's
\* 20 months.
CreatedAt(user) ==
    IF user = Str_alice THEN DateAt(-131501)
    ELSE IF user = Str_carol THEN DateAt(-219168)
    ELSE DateAt(-876672)

\* What a lookup of a user's profile can end in: the fetch throws, the status
\* is not ok, the page holds no cake-day time (or no datetime attribute), the
\* datetime is no date, or it is the account's creation date.
Responses(user) ==
    { [kind |-> "throw", createdAt |-> NullDate],
      [kind |-> "notOk", createdAt |-> NullDate],
      [kind |-> "noTime", createdAt |-> NullDate],
      [kind |-> "ok", createdAt |-> InvalidDate],
      [kind |-> "ok", createdAt |-> CreatedAt(user)] }

\* The call of removePostsSecondPass that is suspended at a fetch.
Proc(i, batch, outcome) ==
    [inst |-> i, batch |-> batch, k |-> outcome.k, user |-> outcome.user]

\* The procs once the call at index j (0: a new call) has run to outcome.
procsAfter(j, i, batch, outcome) ==
    LET others == IF j = 0 THEN procs
                  ELSE SubSeq(procs, 1, j - 1) \o SubSeq(procs, j + 1, Len(procs))
    IN  IF outcome.waiting THEN Append(others, Proc(i, batch, outcome)) ELSE others

\* The interval of Filter i fires: removePostsSecondPass runs up to its
\* first fetch.
TimerFires(i) ==
    /\ insts[i].timer
    /\ Len(procs) < MaxProcs
    /\ LET batch == batchOf(insts[i].pending)
           outcome == removePostsSecondPass(StateOf(i), now)
       IN  /\ Commit(i, outcome.st)
           /\ procs' = procsAfter(0, i, batch, outcome)
    /\ lastAct' = Act("tick", i)
    /\ UNCHANGED <<matchVars, classifyVars, storeSettings, today, now, filter, loaded, popup>>

\* The fetch a suspended removePostsSecondPass waits for ends with resp.
FetchReturns(j, resp) ==
    /\ LET proc == procs[j]
           outcome == resumeSecondPass(StateOf(proc.inst), proc.batch, proc.k,
                                       proc.user, resp, now)
       IN  /\ Commit(proc.inst, outcome.st)
           /\ procs' = procsAfter(j, proc.inst, proc.batch, outcome)
    /\ lastAct' = Act(IF resp.kind = "ok" THEN resp.createdAt.kind ELSE resp.kind,
                      procs[j].inst)
    /\ UNCHANGED <<matchVars, classifyVars, storeSettings, today, now, filter, loaded, popup>>

Next ==
    \/ MainOnLoad
    \/ \E i \in DOMAIN insts :
         \/ LoadSettingsDone(i)
         \/ SaveSettingsDone(i)
         \/ LoadCountersDone(i)
         \/ SaveCountersDone(i)
         \/ Rescan(i)
         \/ TimerFires(i)
    \/ \E j \in DOMAIN procs : \E resp \in Responses(procs[j].user) : FetchReturns(j, resp)
    \/ \E post \in PagePosts : InsertPost(post)
    \/ \E p \in DOMAIN dom : UserToggle(p)

Spec == Init /\ [][Next]_vars

-----------------------------------------------------------------------------
(* SpecCounters: the counters of the Filters a page starts, restarts on a   *)
(* settings update included, and of the popup, over a day change            *)

\* The posts of the page: one that a keyword matches, one no rule matches.
CounterPosts ==
    { PagePost("AS", Str_CryptoNow, Str_CryptoNow, Str_rOk, Str_alice),
      PagePost("S", Null, Str_Hello, Str_rOk, Str_bob) }

\* The settings the popup stores, at the start and on every update.
CounterSettings == Settings(<<Str_crypto>>, <<Str_rSpam>>, TRUE, 12, FALSE)

InitCounters ==
    /\ MatchIdle
    /\ ClassifyIdle
    /\ dom \in { <<post>> : post \in CounterPosts }
    /\ hist = <<NoHistory>>
    /\ storeSettings = Stored(CounterSettings)
    /\ storeCounters \in InitialCounters
    /\ today = 0
    /\ now = 0
    /\ insts = << >>
    /\ filter = 0
    /\ loaded = FALSE
    /\ procs = << >>
    /\ popup = [pc |-> "closed", got |-> NoRead]
    /\ lastAct = Act("none", 0)

NextCounters ==
    \/ MainOnLoad
    \/ SettingsUpdated(CounterSettings)
    \/ \E i \in DOMAIN insts :
         \/ LoadSettingsDone(i)
         \/ LoadCountersDone(i)
         \/ SaveCountersDone(i)
    \/ \E post \in CounterPosts : InsertPost(post)
    \/ NewDay
    \/ PopupOpen
    \/ PopupLoadDone

SpecCounters == InitCounters /\ [][NextCounters]_vars

-----------------------------------------------------------------------------
(* SpecAge: one Filter with the account-age filter on, on a page of posts   *)
(* no keyword or subreddit rule matches, while the clock runs               *)

MaxClock == 60

\* The minutes the clock is looked at: the start, 59 minutes later, and
\* every minute from one hour on.
ClockTimes == {0, 59} \cup 60..MaxClock

\* The posts the page delivers: none matches a rule.
AgePosts ==
    { PagePost("AS", Str_Hello, Str_Hello, Str_rOk, Str_alice),
      PagePost("S", Null, Str_Hello, Str_rOk, Str_bob),
      PagePost("S", Null, Str_Hello, Str_rOk, Str_carol) }

\* The settings the popup stores: the age filter is on, the minimum age is
\* 12 months, 5 months, or 0.
AgeSettings ==
    { Settings(<<Str_crypto>>, <<Str_rSpam>>, TRUE, months, TRUE) : months \in {12, 5, 0} }

InitAge ==
    /\ MatchIdle
    /\ ClassifyIdle
    /\ dom \in { <<post>> : post \in AgePosts }
    /\ hist = <<NoHistory>>
    /\ storeSettings \in { Stored(x) : x \in AgeSettings }
    /\ storeCounters = Stored(Counters(2, 1, 0))
    /\ today = 0
    /\ now = 0
    /\ insts = << >>
    /\ filter = 0
    /\ loaded = FALSE
    /\ procs = << >>
    /\ popup = [pc |-> "closed", got |-> NoRead]
    /\ lastAct = Act("none", 0)

\* Time passes: Date.now() is later at the next handler.
AdvanceClock ==
    /\ \E t \in ClockTimes : t > now /\ now' = t
    /\ lastAct' = Act("other", 0)
    /\ UNCHANGED <<matchVars, classifyVars, dom, storeSettings, storeCounters, today,
                   insts, filter, loaded, procs, popup, hist>>

NextAge ==
    \/ MainOnLoad
    \/ \E i \in DOMAIN insts :
         \/ LoadSettingsDone(i)
         \/ LoadCountersDone(i)
         \/ Rescan(i)
         \/ TimerFires(i)
    \/ \E j \in DOMAIN procs : \E resp \in Responses(procs[j].user) : FetchReturns(j, resp)
    \/ \E post \in AgePosts : InsertPost(post)
    \/ AdvanceClock

SpecAge == InitAge /\ [][NextAge]_vars

\* Some interval fires.
TickSome == \E i \in DOMAIN insts : TimerFires(i)

\* Some fetch under way ends, in whatever way.
FetchSome ==
    \E j \in DOMAIN procs : \E resp \in Responses(procs[j].user) : FetchReturns(j, resp)

\* Some fetch under way ends with the creation date of the account.
FetchDate ==
    \E j \in DOMAIN procs :
        FetchReturns(j, [kind |-> "ok", createdAt |-> CreatedAt(procs[j].user)])

\* SpecDedup: one Filter with a minimum age of 12 months on a page where
\* posts of alice, whose account is 3 months old, arrive.
DedupPost == PagePost("AS", Str_Hello, Str_Hello, Str_rOk, Str_alice)

InitDedup ==
    /\ InitAge
    /\ dom = <<DedupPost>>
    /\ storeSettings = Stored(Settings(<<Str_crypto>>, <<Str_rSpam>>, TRUE, 12, TRUE))

NextDedup ==
    \/ MainOnLoad
    \/ \E i \in DOMAIN insts :
         \/ LoadSettingsDone(i)
         \/ LoadCountersDone(i)
         \/ Rescan(i)
         \/ TimerFires(i)
    \/ \E j \in DOMAIN procs : \E resp \in Responses(procs[j].user) : FetchReturns(j, resp)
    \/ InsertPost(DedupPost)

\* The browser keeps its promises: an interval that is set keeps firing
\* (setInterval), a fetch that was started ends, and fetches do not fail for
\* ever. Nothing makes the page change again.
SpecDedup ==
    /\ InitDedup /\ [][NextDedup]_vars
    /\ WF_vars(TickSome)
    /\ WF_vars(FetchSome)
    /\ SF_vars(FetchDate)

-----------------------------------------------------------------------------
(* Claims about the keyword matcher *)

\* The positions where keyword kw occurs in text, letter case ignored.
Occurrences(text, kw) ==
    { i \in 1..(Len(text) + 1 - Len(kw)) :
        \A q \in DOMAIN kw : LowerChar(text[i + q - 1]) = LowerChar(kw[q]) }

\* The occurrence of kw at position i is part of a longer word: a word
\* character of the text continues the keyword's first or last word character.
InsideLongerWord(text, kw, i) ==
    \/ IsWordChar(kw[1]) /\ IsWordAt(text, i - 1)
    \/ IsWordChar(kw[Len(kw)]) /\ IsWordAt(text, i + Len(kw))

\* The occurrence of kw at position i is a word of its own: kw starts and ends
\* with a word character and no word character touches it.
WholeWordAt(text, kw, i) ==
    /\ IsWordChar(kw[1]) /\ IsWordChar(kw[Len(kw)])
    /\ ~IsWordAt(text, i - 1) /\ ~IsWordAt(text, i + Len(kw))

\* The occurrence of kw at position i is delimited by blanks or the ends of
\* the text.
StandaloneAt(text, kw, i) ==
    /\ i = 1 \/ text[i - 1] = " "
    /\ i + Len(kw) = Len(text) + 1 \/ text[i + Len(kw)] = " "

\* C1: keyword matching is whole-word and ignores letter case. A keyword that
\* occurs in the title only inside longer words is not returned by
\* findMatchingKeyword, whatever the case of the letters; and a keyword that
\* occurs as a word of its own, in any letter case, makes findMatchingKeyword
\* return a keyword.
C1_WholeWordOnly ==
    mPc = "done" =>
        \A j \in DOMAIN mKeywords :
            LET k == mKeywords[j]
                occ == Occurrences(mTitle, k)
            IN  /\ (occ # {} /\ \A i \in occ : InsideLongerWord(mTitle, k, i))
                       => mResult # k
                /\ (\E i \in occ : WholeWordAt(mTitle, k, i)) => mResult # Null

\* C1's case: the keyword occurs, with a letter in the other case, only inside
\* a longer word, and nothing was returned.
C1_Witness ==
    /\ mPc = "done"
    /\ mResult = Null
    /\ \E j \in DOMAIN mKeywords :
           LET k == mKeywords[j]
               occ == Occurrences(mTitle, k)
           IN  /\ occ # {}
               /\ \A i \in occ : InsideLongerWord(mTitle, k, i)
               /\ \E i \in occ : \E q \in DOMAIN k : mTitle[i + q - 1] # k[q]

\* C2: every keyword, metacharacters and leading or trailing non-word
\* characters included, matches a title that holds it as a standalone word
\* (delimited by blanks or the ends of the title), and a metacharacter is
\* never a regular-expression operator: a keyword that is returned occurs
\* literally in the title.
C2_StandaloneKeywordMatches ==
    mPc = "done" =>
        \A j \in DOMAIN mKeywords :
            LET k == mKeywords[j]
                occ == Occurrences(mTitle, k)
            IN  /\ (\E i \in occ : StandaloneAt(mTitle, k, i))
                       => mResult \in {mKeywords[h] : h \in 1..j}
                /\ mResult = k => occ # {}

\* The part of C2 the code keeps: a returned keyword occurs literally in the
\* title, so no metacharacter of a keyword acts as an operator.
MetacharsAreLiteral ==
    mPc = "done" /\ mResult # Null => Occurrences(mTitle, mResult) # {}

-----------------------------------------------------------------------------
(* Claims about the classifier *)

\* The RuleSet of the spec's scenario.
ScenarioSettings == Settings(<<Str_crypto>>, <<Str_rSpam>>, TRUE, 12, FALSE)

\* Two strings are equal once both are lowercased.
SameIgnoringCase(a, b) ==
    Len(a) = Len(b) /\ \A i \in DOMAIN a : LowerChar(a[i]) = LowerChar(b[i])

\* The subreddit attribute of a candidate: its own subreddit-prefixed-name
\* and, when that is missing or empty, the one of its shreddit-post.
SubredditOf(d, ele) ==
    LET own == IF ele.tag = Article THEN d[ele.p].artSub ELSE d[ele.p].innerSub
        inner == IF d[ele.p].shape = "A" THEN Null ELSE d[ele.p].innerSub
    IN  IF Truthy(own) THEN own ELSE IF Truthy(inner) THEN inner ELSE <<>>

\* The candidate's subreddit is on the block list.
SubredditIsBlocked(d, settings, ele) ==
    /\ SubredditOf(d, ele) # <<>>
    /\ \E j \in DOMAIN settings.subreddits :
           SameIgnoringCase(settings.subreddits[j], SubredditOf(d, ele))

\* The candidate has an article around it (or is one) with an aria-label.
HasAria(d, ele) == d[ele.p].shape # "S" /\ d[ele.p].aria # Null

\* Every title the page gives the post (aria-label, post-title) is t, and it
\* gives at least one.
PostTitled(d, ele, t) ==
    /\ d[ele.p].aria \in {t, Null}
    /\ d[ele.p].postTitle \in {t, Null}
    /\ d[ele.p].aria = t \/ d[ele.p].postTitle = t

\* C3 as stated: under the scenario's RuleSet a post titled "Best
\* cryptocurrency tips" (in a subreddit that is not blocked) is removed with a
\* reason naming the keyword "crypto".
C3_CryptocurrencyRemoved ==
    ( /\ cPc = "done"
      /\ cSettings = ScenarioSettings
      /\ PostTitled(dom, cEle, Str_BestCryptocurrencyTips)
      /\ ~SubredditIsBlocked(dom, cSettings, cEle) )
    => /\ cPost.shouldRemove
       /\ cPost.removalReason = Reason("keyword", Str_crypto)

\* C3 amended: under the scenario's RuleSet a post titled "Best
\* cryptocurrency tips" in a subreddit that is not blocked is not removed,
\* "crypto" being there only a part of a longer word; a candidate whose
\* article's aria-label holds "crypto" as a word of its own ("Best CRYPTO
\* tips") is removed with the reason: keyword "crypto" matched.
C3_OnlyWholeWordCryptoRemoved ==
    ( /\ cPc = "done"
      /\ cSettings = ScenarioSettings
      /\ ~SubredditIsBlocked(dom, cSettings, cEle) )
    => /\ PostTitled(dom, cEle, Str_BestCryptocurrencyTips)
            => ~cPost.shouldRemove /\ cPost.removalReason = NoReason
       /\ (HasAria(dom, cEle) /\ dom[cEle.p].aria = Str_BestCryptoTips)
            => /\ cPost.shouldRemove
               /\ cPost.removalReason = Reason("keyword", Str_crypto)
               /\ cPost.matchedKeyword = Str_crypto

\* C3's case: the scenario's RuleSet has classified a post titled "Best
\* cryptocurrency tips" and kept it.
C3_Witness ==
    /\ cPc = "done"
    /\ cSettings = ScenarioSettings
    /\ PostTitled(dom, cEle, Str_BestCryptocurrencyTips)
    /\ dom[cEle.p].aria = Str_BestCryptocurrencyTips
    /\ ~SubredditIsBlocked(dom, cSettings, cEle)
    /\ ~cPost.shouldRemove

\* C4: a candidate is removed for its subreddit exactly when its subreddit
\* attribute equals a block-list entry once both are lowercased: "R/Spam" on
\* the list blocks "r/spam" of the page, "r/spam" on the list does not block
\* "r/spammy", and a missing or empty attribute is never blocked.
C4_SubredditExactIgnoringCase ==
    cPc = "done" =>
        /\ (cPost.shouldRemove /\ cPost.removalReason.kind = "subreddit")
               <=> SubredditIsBlocked(dom, cSettings, cEle)
        /\ cPost.removalReason.kind = "subreddit"
               => cPost.removalReason.arg = SubredditOf(dom, cEle)
        /\ (cSettings.subreddits = <<Str_rSpam>> /\ SubredditOf(dom, cEle) = Str_rSpammy)
               => cPost.removalReason.kind # "subreddit"
        /\ (cSettings.subreddits = <<Str_RSpamUpper>> /\ SubredditOf(dom, cEle) = Str_rSpam)
               => cPost.shouldRemove /\ cPost.removalReason.kind = "subreddit"
        /\ SubredditOf(dom, cEle) = <<>> => cPost.removalReason.kind # "subreddit"

\* C4's case: the block entry "R/Spam" has removed a post of "r/spam".
C4_Witness ==
    /\ cPc = "done"
    /\ cSettings.subreddits = <<Str_RSpamUpper>>
    /\ SubredditOf(dom, cEle) = Str_rSpam
    /\ cPost.shouldRemove
    /\ cPost.removalReason = Reason("subreddit", Str_rSpam)

\* The text the classifier tests against the keywords for a candidate: the
\* aria-label of the article the candidate is, or is a child of.
AriaText(d, ele) == IF HasAria(d, ele) THEN d[ele.p].aria ELSE <<>>

\* The candidate's text matches a keyword and its subreddit is blocked.
MatchesBoth(d, settings, ele) ==
    /\ \E j \in DOMAIN settings.keywords : keywordMatches(AriaText(d, ele), settings.keywords[j])
    /\ SubredditIsBlocked(d, settings, ele)

\* C5 as stated: a candidate whose text matches a keyword and whose subreddit
\* is blocked is removed with the keyword reason.
C5_KeywordReasonFirst ==
    (cPc = "done" /\ MatchesBoth(dom, cSettings, cEle))
    => cPost.shouldRemove /\ cPost.removalReason.kind = "keyword"

\* C5 amended: a candidate (of either shape) whose text matches a keyword and
\* whose subreddit is blocked is removed, and the reason is the
\* blocked-subreddit reason: the subreddit rule overrides the keyword rule.
C5_SubredditReasonFirst ==
    (cPc = "done" /\ MatchesBoth(dom, cSettings, cEle))
    => /\ cPost.shouldRemove
       /\ cPost.removalReason = Reason("subreddit", SubredditOf(dom, cEle))

\* C5's case: an article and a shreddit-post inside an article, each matching
\* a keyword and a blocked subreddit, have been classified.
C5_Witness ==
    /\ cPc = "done"
    /\ MatchesBoth(dom, cSettings, cEle)
    /\ cEle.tag = Article
    /\ cPost.matchedKeyword # <<>>
    /\ cPost.removalReason.kind = "subreddit"

\* C6 as stated: the inner post-title is the text tested against the keywords
\* and the aria-label is used only when there is no inner title; so a
\* shreddit-post whose post-title holds a keyword is removed, enclosing
\* article or not; and with both an inner title and an aria-label the Post's
\* title is the inner title.
C6_InnerTitleFirst ==
    cPc = "done" =>
        LET post == dom[cEle.p]
            text == IF Truthy(post.postTitle) THEN post.postTitle
                    ELSE OrEmpty(post.aria)
        IN  /\ (\E j \in DOMAIN cSettings.keywords : keywordMatches(text, cSettings.keywords[j]))
                   => cPost.shouldRemove
            /\ (Truthy(post.postTitle) /\ Truthy(post.aria)) => cPost.title = post.postTitle

\* C6 amended: keyword matching tests the aria-label of the article only, the
\* candidate's own when it is an article and the enclosing article's when it
\* is a shreddit-post; the inner post-title is never tested, so a
\* shreddit-post with no enclosing article is never removed for a keyword.
\* The Post's title is the aria-label for an article candidate, and for a
\* shreddit-post candidate the inner post-title, with the enclosing article's
\* aria-label as the fallback when the post-title is missing or empty and the
\* subreddit is not blocked.
C6_AriaLabelIsTested ==
    cPc = "done" =>
        LET post == dom[cEle.p]
            blocked == SubredditIsBlocked(dom, cSettings, cEle)
            ariaMatches ==
                \E j \in DOMAIN cSettings.keywords :
                    keywordMatches(AriaText(dom, cEle), cSettings.keywords[j])
        IN  /\ cPost.removalReason.kind = "keyword" <=> (ariaMatches /\ ~blocked)
            /\ cPost.shouldRemove <=> (ariaMatches \/ blocked)
            /\ post.shape = "S" => cPost.removalReason.kind # "keyword"
            /\ cEle.tag = Article => cPost.title = OrEmpty(post.aria)
            /\ cEle.tag = ShredditPost =>
                   cPost.title = IF Truthy(post.postTitle) THEN post.postTitle
                                 ELSE IF ~blocked THEN AriaText(dom, cEle)
                                 ELSE <<>>

\* C6's case: a shreddit-post with no article around it, its post-title
\* holding a keyword, was kept; and an article with an inner title other than
\* its aria-label got the aria-label as its title.
C6_Witness ==
    /\ cPc = "done"
    /\ \/ /\ dom[cEle.p].shape = "S"
          /\ dom[cEle.p].postTitle = Str_BestCryptoTips
          /\ Str_crypto \in Range(cSettings.keywords)
          /\ ~cPost.shouldRemove
       \/ /\ cEle.tag = Article
          /\ Truthy(dom[cEle.p].postTitle)
          /\ dom[cEle.p].postTitle # dom[cEle.p].aria
          /\ cPost.title = dom[cEle.p].aria

-----------------------------------------------------------------------------
(* SpecExpand: one Filter with a minimum age of 12 months, a shreddit-post  *)
(* of carol, whose account is 5 months old, the user's clicks and the clock *)

ExpandPost == PagePost("S", Null, Str_Hello, Str_rOk, Str_carol)

InitExpand ==
    /\ InitAge
    /\ dom = <<ExpandPost>>
    /\ storeSettings = Stored(Settings(<<Str_crypto>>, <<Str_rSpam>>, TRUE, 12, TRUE))

NextExpand ==
    \/ MainOnLoad
    \/ \E i \in DOMAIN insts :
         \/ LoadSettingsDone(i)
         \/ LoadCountersDone(i)
         \/ Rescan(i)
         \/ TimerFires(i)
    \/ \E j \in DOMAIN procs : \E resp \in Responses(procs[j].user) : FetchReturns(j, resp)
    \/ \E p \in DOMAIN dom : UserToggle(p)
    \/ AdvanceClock

SpecExpand == InitExpand /\ [][NextExpand]_vars

-----------------------------------------------------------------------------
(* SpecDetach: one Filter with the age filter on, on a page that also takes *)
(* posts out of the document                                                *)

\* The page removes the root of post p from the document. The observer's
\* callback looks at added nodes only, so no pass runs.
PageRemoves(p) ==
    /\ dom[p].attached
    /\ dom' = [dom EXCEPT ![p].attached = FALSE]
    /\ lastAct' = Act("other", 0)
    /\ UNCHANGED <<matchVars, classifyVars, storeVars, today, now, insts, filter, loaded,
                   procs, popup, hist>>

\* The posts the page delivers: a keyword match in an article, and posts no
\* rule matches by carol (5 months) and by alice (3 months).
DetachPosts ==
    { PagePost("AS", Str_CryptoNow, Str_CryptoNow, Str_rOk, Str_bob),
      PagePost("S", Null, Str_Hello, Str_rOk, Str_carol),
      PagePost("AS", Str_Hello, Str_Hello, Str_rOk, Str_alice) }

InitDetach ==
    /\ InitAge
    /\ dom = <<ExpandPost>>
    /\ storeSettings = Stored(Settings(<<Str_crypto>>, <<Str_rSpam>>, TRUE, 12, TRUE))

NextDetach ==
    \/ MainOnLoad
    \/ \E i \in DOMAIN insts :
         \/ LoadSettingsDone(i)
         \/ LoadCountersDone(i)
         \/ Rescan(i)
         \/ TimerFires(i)
    \/ \E j \in DOMAIN procs : \E resp \in Responses(procs[j].user) : FetchReturns(j, resp)
    \/ \E post \in DetachPosts : InsertPost(post)
    \/ \E p \in DOMAIN dom : PageRemoves(p)

SpecDetach == InitDetach /\ [][NextDetach]_vars

-----------------------------------------------------------------------------
(* SpecSave: incrementCounters and saveCounters step by step, with store    *)
(* writes and broadcasts that can fail                                      *)

\* The cap on totalRemoved in SpecSave.
MaxRemoved == 5

\* The two increments of incrementCounters.
countersPlusOne(counters) ==
    [counters EXCEPT !.totalRemoved = @ + 1, !.dailyRemoved = @ + 1]

\* A call of saveCounters of Filter i that is suspended: at "set" its
\* storage write of `wrote` is under way, at "send" its countersUpdated
\* message carrying msg is.
SaveCall(i, at, wrote, msg) == [inst |-> i, at |-> at, wrote |-> wrote, msg |-> msg]

\* A mutant of saveCounters: the message is sent whether or not the write
\* succeeded.
afterSetSendsAnyway(call, ok, counters) == <<SaveCall(call.inst, "send", call.wrote, counters)>>

\* saveCounters when its storage write has settled: on success sendMessage
\* is called with the counters as they are now; on failure the outer catch
\* logs and the call ends.
afterSet(call, ok, counters) ==
    IF ok THEN <<SaveCall(call.inst, "send", call.wrote, counters)>> ELSE << >>

\* The calls with call j replaced by the calls in its place.
replaceCall(calls, j, by) ==
    SubSeq(calls, 1, j - 1) \o by \o SubSeq(calls, j + 1, Len(calls))

\* A Filter whose init() has finished on a page without posts, with the
\* counters the store held.
ReadyFilter(settings, counters) ==
    [NewFilter(counters.lastResetDate, NoRead) EXCEPT
        !.pc = "ready", !.settings = settings, !.counters = counters, !.observer = TRUE]

InitSave ==
    /\ MatchIdle
    /\ ClassifyIdle
    /\ dom = << >>
    /\ hist = << >>
    /\ storeSettings = Stored(Settings(<<Str_crypto>>, <<Str_rSpam>>, TRUE, 12, FALSE))
    /\ storeCounters \in { Stored(Counters(2, 1, 0)), Stored(Counters(0, 0, 0)) }
    /\ today = 0
    /\ now = 0
    /\ insts = <<ReadyFilter(storeSettings.val, storeCounters.val)>>
    /\ filter = 1
    /\ loaded = TRUE
    /\ procs = << >>
    /\ popup \in { [pc |-> pc, got |-> NoRead] : pc \in {"closed", "open"} }
    /\ lastAct = Act("none", 0)

\* incrementCounters of Filter i up to the await inside saveCounters: both
\* counters go up and storage.local.set is called with them.
IncrementStarts(i) ==
    /\ insts[i].pc = "ready"
    /\ insts[i].counters.totalRemoved < MaxRemoved
    /\ Len(procs) < MaxProcs
    /\ insts' = [insts EXCEPT ![i].counters = countersPlusOne(@)]
    /\ procs' = Append(procs, SaveCall(i, "set", insts'[i].counters, insts'[i].counters))
    /\ lastAct' = Act("increment", i)
    /\ UNCHANGED <<matchVars, classifyVars, dom, storeVars, today, now, filter, loaded,
                   popup, hist>>

\* The storage write of call j settles, the writes in the order they were
\* issued: it has stored the counters, or it has failed.
SetReturns(j, ok) ==
    /\ procs[j].at = "set"
    /\ \A n \in 1..(j - 1) : procs[n].at # "set"
    /\ storeCounters' = IF ok THEN Stored(procs[j].wrote) ELSE storeCounters
    /\ procs' = replaceCall(procs, j, afterSet(procs[j], ok, insts[procs[j].inst].counters))
    /\ lastAct' = Act(IF ok THEN "setOk" ELSE "setFailed", procs[j].inst)
    /\ UNCHANGED <<matchVars, classifyVars, dom, storeSettings, today, now, insts, filter,
                   loaded, popup, hist>>

\* The message of call j settles: an open popup has taken the counters, or
\* there was no listener and the inner catch swallows the error.
SendReturns(j) ==
    /\ procs[j].at = "send"
    /\ popup' = IF popup.pc = "open" THEN [popup EXCEPT !.got = Stored(procs[j].msg)]
                ELSE popup
    /\ procs' = replaceCall(procs, j, << >>)
    /\ lastAct' = Act(IF popup.pc = "open" THEN "sendOk" ELSE "sendFailed", procs[j].inst)
    /\ UNCHANGED <<matchVars, classifyVars, dom, storeVars, today, now, insts, filter,
                   loaded, hist>>

\* The user opens the popup or closes it.
PopupSwitches ==
    /\ popup' = [pc |-> IF popup.pc = "open" THEN "closed" ELSE "open", got |-> NoRead]
    /\ lastAct' = Act("other", 0)
    /\ UNCHANGED <<matchVars, classifyVars, dom, storeVars, today, now, insts, filter,
                   loaded, procs, hist>>

NextSave ==
    \/ \E i \in DOMAIN insts : IncrementStarts(i)
    \/ \E j \in DOMAIN procs : \E ok \in BOOLEAN : SetReturns(j, ok)
    \/ \E j \in DOMAIN procs : SendReturns(j)
    \/ PopupSwitches

SpecSave == InitSave /\ [][NextSave]_vars

-----------------------------------------------------------------------------
(* SpecVideo: one Filter on a page whose posts hold videos that play        *)

\* The video of post p, which is in the document and shows no banner,
\* starts to play (autoplay, or the user) or plays on.
VideoPlays(p) ==
    /\ dom[p].video # "none"
    /\ dom[p].attached /\ ~dom[p].banner
    /\ ~dom[p].playing \/ dom[p].currentTime = 0
    /\ dom' = [dom EXCEPT ![p].playing = TRUE, ![p].currentTime = 1]
    /\ lastAct' = Act("other", 0)
    /\ UNCHANGED <<matchVars, classifyVars, storeVars, today, now, insts, filter, loaded,
                   procs, popup, hist>>

\* The posts of the page: a keyword match with a <video>, and a post no
\* rule matches, by carol (5 months), with a <shreddit-player>.
VideoPosts ==
    { [PagePost("AS", Str_CryptoNow, Str_CryptoNow, Str_rOk, Str_bob) EXCEPT !.video = "video"],
      [PagePost("S", Null, Str_Hello, Str_rOk, Str_carol) EXCEPT !.video = "player"] }

InitVideo ==
    /\ MatchIdle
    /\ ClassifyIdle
    /\ dom \in { <<post>> : post \in VideoPosts }
    /\ hist = <<NoHistory>>
    /\ storeSettings = Stored(Settings(<<Str_crypto>>, <<Str_rSpam>>, TRUE, 12, TRUE))
    /\ storeCounters = Stored(Counters(2, 1, 0))
    /\ today = 0
    /\ now = 0
    /\ insts = << >>
    /\ filter = 0
    /\ loaded = FALSE
    /\ procs = << >>
    /\ popup = [pc |-> "closed", got |-> NoRead]
    /\ lastAct = Act("none", 0)

NextVideo ==
    \/ MainOnLoad
    \/ \E i \in DOMAIN insts :
         \/ LoadSettingsDone(i)
         \/ LoadCountersDone(i)
         \/ Rescan(i)
         \/ TimerFires(i)
    \/ \E j \in DOMAIN procs : \E resp \in Responses(procs[j].user) : FetchReturns(j, resp)
    \/ \E p \in DOMAIN dom : UserToggle(p)
    \/ \E p \in DOMAIN dom : VideoPlays(p)
    \/ AdvanceClock

SpecVideo == InitVideo /\ [][NextVideo]_vars

-----------------------------------------------------------------------------
(* SpecBatch: one Filter with the age filter on, on a page with more        *)
(* candidates than one batch takes                                          *)

\* Four articles without a shreddit-post and two shreddit-posts, by carol
\* (5 months) and alice (3 months), none matched by a rule: six candidates.
BatchPage ==
    << PagePost("A", Str_Hello, Null, Null, Null),
       PagePost("A", Str_Hello, Null, Null, Null),
       PagePost("A", Str_Hello, Null, Null, Null),
       PagePost("A", Str_Hello, Null, Null, Null),
       PagePost("S", Null, Str_Hello, Str_rOk, Str_carol),
       PagePost("S", Null, Str_Hello, Str_rOk, Str_alice) >>

InitBatch ==
    /\ MatchIdle
    /\ ClassifyIdle
    /\ dom = BatchPage
    /\ hist = [p \in DOMAIN BatchPage |-> NoHistory]
    /\ storeSettings = Stored(Settings(<<Str_crypto>>, <<Str_rSpam>>, TRUE, 12, TRUE))
    /\ storeCounters = Stored(Counters(2, 1, 0))
    /\ today = 0
    /\ now = 0
    /\ insts = << >>
    /\ filter = 0
    /\ loaded = FALSE
    /\ procs = << >>
    /\ popup = [pc |-> "closed", got |-> NoRead]
    /\ lastAct = Act("none", 0)

NextBatch ==
    \/ MainOnLoad
    \/ \E i \in DOMAIN insts :
         \/ LoadSettingsDone(i)
         \/ LoadCountersDone(i)
         \/ Rescan(i)
         \/ TimerFires(i)
    \/ \E j \in DOMAIN procs : \E resp \in Responses(procs[j].user) : FetchReturns(j, resp)

SpecBatch == InitBatch /\ [][NextBatch]_vars

-----------------------------------------------------------------------------
(* SpecDrain: one Filter with the age filter on, whose interval keeps       *)
(* firing and whose fetches end, on a page that may remove its post         *)

InitDrain ==
    /\ InitAge
    /\ dom \in { <<ExpandPost>>, <<DedupPost>> }
    /\ storeSettings = Stored(Settings(<<Str_crypto>>, <<Str_rSpam>>, TRUE, 12, TRUE))

NextDrain ==
    \/ MainOnLoad
    \/ \E i \in DOMAIN insts :
         \/ LoadSettingsDone(i)
         \/ LoadCountersDone(i)
         \/ Rescan(i)
         \/ TimerFires(i)
    \/ \E j \in DOMAIN procs : \E resp \in Responses(procs[j].user) : FetchReturns(j, resp)
    \/ \E p \in DOMAIN dom : UserToggle(p)
    \/ \E p \in DOMAIN dom : PageRemoves(p)

\* An interval that is set keeps firing (setInterval) and a fetch that was
\* started ends.
SpecDrain ==
    /\ InitDrain /\ [][NextDrain]_vars
    /\ WF_vars(TickSome)
    /\ WF_vars(FetchSome)

-----------------------------------------------------------------------------
(* SpecToggle: one Filter, the account-age filter switched on and off from  *)
(* the popup while posts arrive and ticks run                               *)

\* The accountAgeFilterToggled message arrives with payload enabled (a
\* message without one counts as false): the Filter that `filter` refers to
\* gets the setting and updateAsyncProcessor runs. Without a Filter nothing
\* happens.
AgeFilterToggled(enabled) ==
    /\ filter # 0
    /\ insts' = [insts EXCEPT ![filter] =
                   updateAsyncProcessor([@ EXCEPT !.settings.accountAgeFilterEnabled = enabled])]
    /\ lastAct' = Act(IF enabled THEN "ageOn"
                      ELSE IF insts[filter].pending = << >> THEN "ageOff"
                      ELSE "ageOffCleared", filter)
    /\ UNCHANGED <<matchVars, classifyVars, dom, storeVars, today, now, filter, loaded,
                   procs, popup, hist>>

\* The posts the page delivers: a keyword match, and two posts no rule
\* matches, by carol (5 months) and by bob (20 months).
TogglePosts ==
    { PagePost("AS", Str_CryptoNow, Str_CryptoNow, Str_rOk, Str_alice),
      PagePost("S", Null, Str_Hello, Str_rOk, Str_carol),
      PagePost("AS", Str_Hello, Str_Hello, Str_rOk, Str_bob) }

\* What the store may hold under filterSettings when the page opens:
\* nothing, the age filter off or on, or the whole extension disabled.
ToggleSettings ==
    { Stored(x) : x \in RunSettings }
        \cup { NotStored(DefaultSettings),
               Stored(Settings(<<Str_crypto>>, <<Str_rSpam>>, FALSE, 12, TRUE)) }

InitToggle ==
    /\ MatchIdle
    /\ ClassifyIdle
    /\ dom \in { <<post>> : post \in TogglePosts }
    /\ hist = <<NoHistory>>
    /\ storeSettings \in ToggleSettings
    /\ storeCounters = Stored(Counters(2, 1, 0))
    /\ today = 0
    /\ now = 0
    /\ insts = << >>
    /\ filter = 0
    /\ loaded = FALSE
    /\ procs = << >>
    /\ popup = [pc |-> "closed", got |-> NoRead]
    /\ lastAct = Act("none", 0)

NextToggle ==
    \/ MainOnLoad
    \/ \E i \in DOMAIN insts :
         \/ LoadSettingsDone(i)
         \/ SaveSettingsDone(i)
         \/ LoadCountersDone(i)
         \/ Rescan(i)
         \/ TimerFires(i)
    \/ \E j \in DOMAIN procs : \E resp \in Responses(procs[j].user) : FetchReturns(j, resp)
    \/ \E post \in TogglePosts : InsertPost(post)
    \/ \E enabled \in BOOLEAN : AgeFilterToggled(enabled)

SpecToggle == InitToggle /\ [][NextToggle]_vars

-----------------------------------------------------------------------------
(* SpecTeardown: settingsUpdated and accountAgeFilterToggled messages while *)
(* a Filter starts, ticks and waits for a lookup                            *)

\* The settings the popup stores: the extension on or off, the account-age
\* filter on or off.
TeardownSettings ==
    { Settings(<<Str_crypto>>, <<Str_rSpam>>, e, 12, a) : e \in BOOLEAN, a \in BOOLEAN }

InitTeardown ==
    /\ MatchIdle
    /\ ClassifyIdle
    /\ dom = <<ExpandPost>>
    /\ hist = <<NoHistory>>
    /\ storeSettings \in { Stored(x) : x \in TeardownSettings }
    /\ storeCounters = Stored(Counters(2, 1, 0))
    /\ today = 0
    /\ now = 0
    /\ insts = << >>
    /\ filter = 0
    /\ loaded = FALSE
    /\ procs = << >>
    /\ popup = [pc |-> "closed", got |-> NoRead]
    /\ lastAct = Act("none", 0)

NextTeardown ==
    \/ MainOnLoad
    \/ \E s \in TeardownSettings : SettingsUpdated(s)
    \/ \E i \in DOMAIN insts :
         \/ LoadSettingsDone(i)
         \/ LoadCountersDone(i)
         \/ Rescan(i)
         \/ TimerFires(i)
    \/ \E j \in DOMAIN procs : \E resp \in Responses(procs[j].user) : FetchReturns(j, resp)
    \/ \E enabled \in BOOLEAN : AgeFilterToggled(enabled)

SpecTeardown == InitTeardown /\ [][NextTeardown]_vars

-----------------------------------------------------------------------------
(* SpecStorage: browser.storage.local starts to reject its calls while a    *)
(* Filter starts and posts arrive                                           *)

\* From now on every get and set of browser.storage.local is rejected (the
\* extension was reloaded or removed under the page, say).
StorageBreaks ==
    /\ ~storeCounters.fails
    /\ storeSettings' = Rejects
    /\ storeCounters' = Rejects
    /\ lastAct' = Act("other", 0)
    /\ UNCHANGED <<matchVars, classifyVars, dom, today, now, insts, filter, loaded,
                   procs, popup, hist>>

InitStorage ==
    /\ MatchIdle
    /\ ClassifyIdle
    /\ dom \in { <<post>> : post \in CounterPosts }
    /\ hist = <<NoHistory>>
    /\ storeSettings \in { Stored(CounterSettings), NotStored(DefaultSettings) }
    /\ storeCounters \in InitialCounters
    /\ today = 0
    /\ now = 0
    /\ insts = << >>
    /\ filter = 0
    /\ loaded = FALSE
    /\ procs = << >>
    /\ popup = [pc |-> "closed", got |-> NoRead]
    /\ lastAct = Act("none", 0)

NextStorage ==
    \/ MainOnLoad
    \/ StorageBreaks
    \/ \E i \in DOMAIN insts :
         \/ LoadSettingsDone(i)
         \/ SaveSettingsDone(i)
         \/ LoadCountersDone(i)
         \/ SaveCountersDone(i)
    \/ \E post \in CounterPosts : InsertPost(post)
    \/ NewDay

SpecStorage == InitStorage /\ [][NextStorage]_vars

-----------------------------------------------------------------------------
(* The popup's block lists and the filter packs *)

\* The characters of the model in ascending order of their UTF-16 code
\* unit, the order Array.prototype.sort() compares strings by.
CodeUnits ==
    <<" ", "/", "0", "1", "2", "3", "4", "5", "6", "7", "8", "9">>
        \o UpperChars \o <<"_">> \o LowerChars

codeUnit(c) == CHOOSE i \in DOMAIN CodeUnits : CodeUnits[i] = c

RECURSIVE stringLess(_, _)
\* a < b for two strings.
stringLess(a, b) ==
    IF b = <<>> THEN FALSE
    ELSE IF a = <<>> THEN TRUE
    ELSE IF Head(a) = Head(b) THEN stringLess(Tail(a), Tail(b))
    ELSE codeUnit(Head(a)) < codeUnit(Head(b))

RECURSIVE insertSorted(_, _)
insertSorted(arr, x) ==
    IF arr = <<>> THEN <<x>>
    ELSE IF stringLess(x, Head(arr)) THEN <<x>> \o arr
    ELSE <<Head(arr)>> \o insertSorted(Tail(arr), x)

\* A mutant of sort(): the array stays in the order of the pushes.
sortNothing(arr) == arr

RECURSIVE sort(_)
\* Array.prototype.sort() without a comparator, on an array of strings.
sort(arr) ==
    IF arr = <<>> THEN <<>> ELSE insertSorted(sort(Tail(arr)), Head(arr))

RECURSIVE trimStart(_)
trimStart(s) == IF s # <<>> /\ Head(s) = " " THEN trimStart(Tail(s)) ELSE s

RECURSIVE trimEnd(_)
trimEnd(s) ==
    IF s # <<>> /\ s[Len(s)] = " " THEN trimEnd(SubSeq(s, 1, Len(s) - 1)) ELSE s

\* A mutant of trim(): the input is taken as typed.
trimNothing(s) == s

\* String.prototype.trim; the space is the model's only white space.
trim(s) == trimEnd(trimStart(s))

\* Array.prototype.includes.
includes(arr, x) == \E i \in DOMAIN arr : arr[i] = x

\* String.prototype.startsWith('r/').
startsWithR(s) == Len(s) >= 2 /\ s[1] = "r" /\ s[2] = "/"

\* arr.filter(x => x !== gone).
without(arr, gone) == SelectSeq(arr, LAMBDA x : x # gone)

\* PopupManager.settings: the settings of the content script and the pack
\* bookkeeping. A record (packVersions, keywordSources, subredditSources) is a
\* function on the keys it has; a missing optional field is the empty array
\* or record, which every operation below treats the same way.
PopupSettings(keywords, subreddits, enabledPacks, packVersions, keywordSources, subredditSources) ==
    [ keywords |-> keywords, subreddits |-> subreddits, enabled |-> TRUE,
      minAccountAge |-> 12, accountAgeFilterEnabled |-> FALSE,
      enabledPacks |-> enabledPacks, packVersions |-> packVersions,
      keywordSources |-> keywordSources, subredditSources |-> subredditSources ]

\* PopupManager.addKeyword with the text of the input field.
addKeyword(settings, input) ==
    LET keyword == toLowerCase(trim(input)) IN
    IF keyword # <<>> /\ ~includes(settings.keywords, keyword)
    THEN [settings EXCEPT !.keywords = sort(Append(@, keyword))]
    ELSE settings

\* PopupManager.removeKeyword.
removeKeyword(settings, keyword) ==
    [settings EXCEPT !.keywords = without(@, keyword)]

\* The "r/" prefix addSubreddit and the pack operations put in front.
withPrefix(subreddit) ==
    IF startsWithR(subreddit) THEN subreddit ELSE <<"r", "/">> \o subreddit

\* PopupManager.addSubreddit with the text of the input field.
addSubreddit(settings, input) ==
    LET typed == toLowerCase(trim(input))
        subreddit == IF typed # <<>> THEN withPrefix(typed) ELSE typed
    IN  IF subreddit # <<>> /\ subreddit # <<"r", "/">>
            /\ ~includes(settings.subreddits, subreddit)
        THEN [settings EXCEPT !.subreddits = sort(Append(@, subreddit))]
        ELSE settings

\* PopupManager.removeSubreddit.
removeSubreddit(settings, subreddit) ==
    [settings EXCEPT !.subreddits = without(@, subreddit)]

\* sources[item] = packId.
setSource(sources, item, packId) ==
    [k \in DOMAIN sources \cup {item} |-> IF k = item THEN packId ELSE sources[k]]

RECURSIVE mergeItems(_, _, _, _)
\* The forEach of enablePack and updatePackVersions over the items of a pack,
\* each already in the form it is looked up by: an item the list does not
\* hold is pushed and its source is set.
mergeItems(list, sources, items, packId) ==
    IF items = <<>> THEN [list |-> list, sources |-> sources]
    ELSE IF includes(list, Head(items))
         THEN mergeItems(list, sources, Tail(items), packId)
         ELSE mergeItems(Append(list, Head(items)),
                         setSource(sources, Head(items), packId), Tail(items), packId)

\* The keywords of a pack as they are looked up: lowercased.
packKeywords(pack) == [i \in DOMAIN pack.keywords |-> toLowerCase(pack.keywords[i])]

\* The subreddits of a pack as they are looked up: lowercased, with prefix.
packSubreddits(pack) ==
    [i \in DOMAIN pack.subreddits |-> withPrefix(toLowerCase(pack.subreddits[i]))]

\* The two forEach loops over a pack, without the sorting.
mergePack(settings, pack, packId) ==
    LET k == mergeItems(settings.keywords, settings.keywordSources, packKeywords(pack), packId)
        s == mergeItems(settings.subreddits, settings.subredditSources, packSubreddits(pack), packId)
    IN  [settings EXCEPT !.keywords = k.list, !.keywordSources = k.sources,
                         !.subreddits = s.list, !.subredditSources = s.sources,
                         !.packVersions = setSource(@, packId, pack.version)]

\* The two lists sorted.
sortLists(settings) ==
    [settings EXCEPT !.keywords = sort(@), !.subreddits = sort(@)]

\* PopupManager.enablePack for a pack of filterPacks.
enablePack(settings, filterPacks, packId) ==
    IF packId \notin DOMAIN filterPacks THEN settings
    ELSE sortLists(mergePack(
             [settings EXCEPT !.enabledPacks =
                 IF includes(@, packId) THEN @ ELSE Append(@, packId)],
             filterPacks[packId], packId))

\* The entries of sources that do not name packId.
otherSources(sources, packId) ==
    [k \in {x \in DOMAIN sources : sources[x] # packId} |-> sources[k]]

\* list.filter(item => sources[item] !== packId).
notFrom(list, sources, packId) ==
    SelectSeq(list, LAMBDA x : ~(x \in DOMAIN sources /\ sources[x] = packId))

\* PopupManager.disablePack.
disablePack(settings, filterPacks, packId) ==
    IF packId \notin DOMAIN filterPacks THEN settings
    ELSE [settings EXCEPT
            !.enabledPacks = without(@, packId),
            !.keywords = notFrom(@, settings.keywordSources, packId),
            !.keywordSources = otherSources(@, packId),
            !.subreddits = notFrom(@, settings.subredditSources, packId),
            !.subredditSources = otherSources(@, packId)]

\* Whether updatePackVersions updates the pack: it is in the packs file and
\* no version or another version is recorded for it.
packIsStale(settings, filterPacks, packId) ==
    /\ packId \in DOMAIN filterPacks
    /\ \/ packId \notin DOMAIN settings.packVersions
       \/ settings.packVersions[packId] # filterPacks[packId].version

RECURSIVE updateFrom(_, _, _)
\* The loop of updatePackVersions from position n of enabledPacks.
updateFrom(settings, filterPacks, n) ==
    IF n > Len(settings.enabledPacks) THEN settings
    ELSE updateFrom(
            IF packIsStale(settings, filterPacks, settings.enabledPacks[n])
            THEN mergePack(settings, filterPacks[settings.enabledPacks[n]],
                           settings.enabledPacks[n])
            ELSE settings,
            filterPacks, n + 1)

\* PopupManager.updatePackVersions: the lists are sorted when a pack was
\* updated.
updatePackVersions(settings, filterPacks) ==
    IF \E n \in DOMAIN settings.enabledPacks :
           packIsStale(settings, filterPacks, settings.enabledPacks[n])
    THEN sortLists(updateFrom(settings, filterPacks, 1))
    ELSE settings

-----------------------------------------------------------------------------
(* SpecPacks: the popup's list editing and pack operations, over updates    *)
(* of the packs file                                                        *)

Pack(version, keywords, subreddits) ==
    [version |-> version, keywords |-> keywords, subreddits |-> subreddits]

\* The ids of the packs in filter-packs.json.
PackIds == {1, 2}

\* filter-packs.json in two releases of the extension: the second release
\* adds a keyword to pack 1 and bumps its version. Pack 2 lists a keyword
\* with a leading space and a subreddit in capitals.
PackFiles ==
    { [id \in PackIds |->
          IF id = 1
          THEN Pack(release, IF release = "1.0.0" THEN << <<"a">> >> ELSE << <<"a">>, <<"c">> >>,
                    << <<"x">> >>)
          ELSE Pack("1.0.0", << <<" ", "b">> >>, << <<"R", "/", "Y">> >>)]
      : release \in {"1.0.0", "1.1.0"} }

\* What the user types into the keyword field and the subreddit field.
KeywordInputs == { <<"a">>, <<" ", "B">>, <<" ">> }
SubredditInputs == { <<"X">>, <<"r", "/", "y">>, <<"r", "/">> }

\* Who put each item of a list there, 0 for the user: the origin of an item
\* that stays is kept, an item that is new gets the origin `who` names.
originAfter(origin, list, who) ==
    [k \in Range(list) |-> IF k \in DOMAIN origin THEN origin[k] ELSE who[k]]

ByUser(list) == [k \in Range(list) |-> 0]

\* The popup at the end of a handler that left it with `settings`: the
\* settings are saved, and the origins follow the lists.
PopupDone(settings, filterPacks, keywordWho, subredditWho, kind, arg) ==
    /\ popup' = [popup EXCEPT
                   !.settings = settings,
                   !.filterPacks = filterPacks,
                   !.keywordOrigin = originAfter(@, settings.keywords, keywordWho),
                   !.subredditOrigin = originAfter(@, settings.subreddits, subredditWho)]
    /\ storeSettings' = Stored(settings)
    /\ lastAct' = Act(kind, arg)
    /\ UNCHANGED <<matchVars, classifyVars, dom, storeCounters, today, now, insts, filter,
                   loaded, procs, hist>>

\* The popup is open, its init() done, on an empty store: the settings are
\* the defaults with the pack bookkeeping of the constructor.
InitPacks ==
    /\ MatchIdle
    /\ ClassifyIdle
    /\ dom = << >>
    /\ hist = << >>
    /\ \E file \in PackFiles :
          /\ file[1].version = "1.0.0"
          /\ popup = [ pc |-> "open", got |-> NoRead,
                       settings |-> PopupSettings(<<>>, <<>>, <<>>, <<>>, <<>>, <<>>),
                       filterPacks |-> file,
                       keywordOrigin |-> <<>>, subredditOrigin |-> <<>> ]
    /\ storeSettings = Stored(popup.settings)
    /\ storeCounters = NotStored(Counters(0, 0, 0))
    /\ today = 0
    /\ now = 0
    /\ insts = << >>
    /\ filter = 0
    /\ loaded = FALSE
    /\ procs = << >>
    /\ lastAct = Act("none", 0)

AddKeyword(input) ==
    PopupDone(addKeyword(popup.settings, input), popup.filterPacks,
              ByUser(<<toLowerCase(trim(input))>>), <<>>, "addKeyword", 0)

\* The delete button of a keyword of the list.
RemoveKeyword(n) ==
    PopupDone(removeKeyword(popup.settings, popup.settings.keywords[n]), popup.filterPacks,
              <<>>, <<>>, "removeKeyword", 0)

AddSubreddit(input) ==
    PopupDone(addSubreddit(popup.settings, input), popup.filterPacks,
              <<>>, ByUser(<<withPrefix(toLowerCase(trim(input)))>>), "addSubreddit", 0)

\* The delete button of a subreddit of the list.
RemoveSubreddit(n) ==
    PopupDone(removeSubreddit(popup.settings, popup.settings.subreddits[n]), popup.filterPacks,
              <<>>, <<>>, "removeSubreddit", 0)

\* The button of a pack's card: it enables a pack that is not enabled and
\* disables one that is.
TogglePack(packId) ==
    IF includes(popup.settings.enabledPacks, packId)
    THEN PopupDone(disablePack(popup.settings, popup.filterPacks, packId), popup.filterPacks,
                   <<>>, <<>>, "disablePack", packId)
    ELSE PopupDone(enablePack(popup.settings, popup.filterPacks, packId), popup.filterPacks,
                   enablePack(popup.settings, popup.filterPacks, packId).keywordSources,
                   enablePack(popup.settings, popup.filterPacks, packId).subredditSources,
                   "enablePack", packId)

\* The popup is opened again, maybe after an update of the extension that
\* brought another packs file: loadSettings reads the stored settings and
\* runs updatePackVersions.
PopupReopened(file) ==
    /\ storeSettings.has
    /\ PopupDone(updatePackVersions(storeSettings.val, file), file,
                 updatePackVersions(storeSettings.val, file).keywordSources,
                 updatePackVersions(storeSettings.val, file).subredditSources,
                 "updatePackVersions", 0)

NextPacks ==
    \/ \E input \in KeywordInputs : AddKeyword(input)
    \/ \E n \in DOMAIN popup.settings.keywords : RemoveKeyword(n)
    \/ \E input \in SubredditInputs : AddSubreddit(input)
    \/ \E n \in DOMAIN popup.settings.subreddits : RemoveSubreddit(n)
    \/ \E packId \in PackIds : TogglePack(packId)
    \/ \E file \in PackFiles : PopupReopened(file)

SpecPacks == InitPacks /\ [][NextPacks]_vars

-----------------------------------------------------------------------------
(* SpecOverlap: the same popup with a packs file whose two packs share a    *)
(* keyword and a subreddit                                                  *)

\* A packs file in which keyword "a" and subreddit "x" belong to both packs.
OverlapFile ==
    [id \in PackIds |->
        IF id = 1
        THEN Pack("1.0.0", << <<"a">>, <<"b">> >>, << <<"x">> >>)
        ELSE Pack("1.0.0", << <<"a">> >>, << <<"x">>, <<"y">> >>)]

InitOverlap ==
    /\ MatchIdle
    /\ ClassifyIdle
    /\ dom = << >>
    /\ hist = << >>
    /\ popup = [ pc |-> "open", got |-> NoRead,
                 settings |-> PopupSettings(<<>>, <<>>, <<>>, <<>>, <<>>, <<>>),
                 filterPacks |-> OverlapFile,
                 keywordOrigin |-> <<>>, subredditOrigin |-> <<>> ]
    /\ storeSettings = Stored(popup.settings)
    /\ storeCounters = NotStored(Counters(0, 0, 0))
    /\ today = 0
    /\ now = 0
    /\ insts = << >>
    /\ filter = 0
    /\ loaded = FALSE
    /\ procs = << >>
    /\ lastAct = Act("none", 0)

NextOverlap ==
    \/ \E input \in KeywordInputs : AddKeyword(input)
    \/ \E n \in DOMAIN popup.settings.keywords : RemoveKeyword(n)
    \/ \E n \in DOMAIN popup.settings.subreddits : RemoveSubreddit(n)
    \/ \E packId \in PackIds : TogglePack(packId)

SpecOverlap == InitOverlap /\ [][NextOverlap]_vars

-----------------------------------------------------------------------------
(* Claims about the synchronous pass and the counters *)

\* One element of a pass that is not marked as expanded by the user, with
\* the Post the classifier gave it and the state the pass leaves.
VerdictFollowed(st, ele, post, after) ==
    IF post.shouldRemove THEN after.inst.pending = st.inst.pending
    ELSE /\ after.dom = st.dom
         /\ after.hist = st.hist
         /\ after.inst.counters = st.inst.counters
         /\ IF st.inst.settings.accountAgeFilterEnabled
            THEN \E k \in DOMAIN after.inst.pending :
                    after.inst.pending[k] = [ele |-> ele, post |-> post]
            ELSE after.inst.pending = st.inst.pending

\* The same with the skip of the pass: an element under the expanded mark is
\* left alone, whatever the classifier would say.
VerdictFollowedUnlessExpanded(st, ele, post, after) ==
    IF expandedAttr(st.dom, articleParentOf(st.dom, ele)) THEN after = st
    ELSE VerdictFollowed(st, ele, post, after)

RECURSIVE EveryElementQueuedOrKept(_, _, _)
EveryElementQueuedOrKept(st, eles, k) ==
    \/ k > Len(eles)
    \/ /\ VerdictFollowed(st, eles[k],
                          convertElementToPost(st.dom, st.inst.settings, eles[k]),
                          passElement(st, eles[k]))
       /\ EveryElementQueuedOrKept(passElement(st, eles[k]), eles, k + 1)

RECURSIVE EveryElementQueuedKeptOrSkipped(_, _, _)
EveryElementQueuedKeptOrSkipped(st, eles, k) ==
    \/ k > Len(eles)
    \/ /\ VerdictFollowedUnlessExpanded(st, eles[k],
                          convertElementToPost(st.dom, st.inst.settings, eles[k]),
                          passElement(st, eles[k]))
       /\ EveryElementQueuedKeptOrSkipped(passElement(st, eles[k]), eles, k + 1)

\* C7 as stated: at every element of a synchronous pass, run by any Filter
\* from any reachable state, a candidate no rule matches is not collapsed,
\* and is in the pending map after its turn when the account-age filter is on
\* and leaves the map as it was when the filter is off; a candidate with a
\* positive verdict leaves the pending map as it was.
C7_UndecidedAlwaysQueued ==
    \A i \in DOMAIN insts :
        EveryElementQueuedOrKept(StateOf(i), fetchArticleOrShredditPostsOnPage(dom), 1)

\* C7, amended: the same for every candidate that does not stand under the
\* mark of a user expansion; a candidate under the mark is skipped, it is
\* neither collapsed nor put into the pending map.
C7_UndecidedQueuedUnlessExpanded ==
    \A i \in DOMAIN insts :
        EveryElementQueuedKeptOrSkipped(StateOf(i), fetchArticleOrShredditPostsOnPage(dom), 1)

\* A pass has just run with the account-age filter on, and the pending map
\* holds a candidate no rule matched, whose post is not collapsed.
C7_Witness ==
    /\ lastAct.kind = "pass"
    /\ \E i \in DOMAIN insts :
         /\ insts[i].settings.accountAgeFilterEnabled
         /\ \E k \in DOMAIN insts[i].pending :
              /\ ~insts[i].pending[k].post.shouldRemove
              /\ ~dom[insts[i].pending[k].ele.p].banner

\* The elements post p has had: its root and every copy of its inner
\* shreddit-post.
ElementsOf(d, p) ==
    {RootOf(d, p)} \cup { Ele(p, ShredditPost, g) : g \in 0..d[p].gen }

\* Post p is in the document, shows no banner, carries no expanded mark, and
\* one of its candidates gets a positive verdict.
FreshMatching(st, p) ==
    /\ st.dom[p].attached /\ ~st.dom[p].banner /\ ~st.dom[p].expanded
    /\ \E k \in DOMAIN fetchArticleOrShredditPostsOnPage(st.dom) :
         LET ele == fetchArticleOrShredditPostsOnPage(st.dom)[k] IN
         /\ ele.p = p
         /\ convertElementToPost(st.dom, st.inst.settings, ele).shouldRemove

\* What two passes in a row did: the second changed neither the page, nor the
\* collapses and increments made, nor the counters in the Filter and in the
\* store; no post was collapsed or counted twice, every collapse was counted
\* once, and a fresh matching post got its one banner and its one increment.
TwoPassesAsOne(st, once, twice) ==
    /\ twice.dom = once.dom
    /\ twice.hist = once.hist
    /\ twice.inst.counters = once.inst.counters
    /\ twice.store = once.store
    /\ \A p \in DOMAIN st.dom :
         /\ once.hist[p].collapses - st.hist[p].collapses \in {0, 1}
         /\ once.hist[p].incs - st.hist[p].incs
              = once.hist[p].collapses - st.hist[p].collapses
         /\ FreshMatching(st, p) =>
              /\ once.dom[p].banner
              /\ once.hist[p].collapses = st.hist[p].collapses + 1
    /\ once.inst.counters.totalRemoved - st.inst.counters.totalRemoved
         <= Cardinality({ p \in DOMAIN st.dom : FreshMatching(st, p) })

PassTwice(st, once) == TwoPassesAsOne(st, once, removePostsFirstPass(once))

\* A collapse call on an element of a post that shows a banner returns
\* "not collapsed" and changes nothing.
SecondCollapseRefused(st) ==
    \A p \in DOMAIN st.dom : \A ele \in ElementsOf(st.dom, p) :
        st.dom[p].banner =>
            /\ ~collapsePostResult(st, ele)
            /\ collapsePostState(st, ele) = st
            /\ hideAndCount(st, ele) = st

\* C8: from every reachable state, for every Filter, removePostsFirstPass run
\* twice over the page leaves what one run leaves; a post that matches and
\* is neither collapsed nor user-expanded gets exactly one collapse (one
\* banner) and exactly one counter increment, no post gets more; and a
\* collapse call on a post that already shows a banner returns "not
\* collapsed" and changes nothing.
C8_PassIdempotent ==
    \A i \in DOMAIN insts :
        /\ PassTwice(StateOf(i), removePostsFirstPass(StateOf(i)))
        /\ SecondCollapseRefused(StateOf(i))

\* A rescan has just run over a page on which the first pass had collapsed a
\* post: the post shows its banner and was collapsed and counted once.
C8_Witness ==
    /\ lastAct.kind = "pass"
    /\ \E p \in DOMAIN dom :
         dom[p].banner /\ hist[p].collapses = 1 /\ hist[p].incs = 1

RECURSIVE SumFrom(_, _, _)
SumFrom(h, field, p) ==
    IF p > Len(h) THEN 0 ELSE h[p][field] + SumFrom(h, field, p + 1)

\* The collapses that succeeded, and the increments made, so far.
Collapses(h) == SumFrom(h, "collapses", 1)
Increments(h) == SumFrom(h, "incs", 1)

\* The counters a step starts from: what loadCounters installs when the step
\* is the end of its read, else the Filter's counters.
CountersBefore(i) ==
    IF insts[i].pc = "loadCounters" /\ insts'[i].pc # "loadCounters"
    THEN countersLoaded(insts[i], today)
    ELSE insts[i].counters

\* C9: in every step the increments made are as many as the collapse calls
\* that succeeded, whether in the synchronous pass or in age resolution, and
\* the Filter's totalRemoved and dailyRemoved both grow by exactly that
\* number: a refused collapse, a user expansion and a rescan of a collapsed
\* post change neither counter.
C9_CountersFollowCollapses ==
    [][ /\ Increments(hist') - Increments(hist) = Collapses(hist') - Collapses(hist)
        /\ \A i \in DOMAIN insts :
             /\ insts'[i].counters.totalRemoved
                  = CountersBefore(i).totalRemoved + (Increments(hist') - Increments(hist))
             /\ insts'[i].counters.dailyRemoved
                  = CountersBefore(i).dailyRemoved + (Increments(hist') - Increments(hist))
      ]_vars

\* A post no rule matches was collapsed by age resolution and counted once,
\* and the user has expanded it since.
C9_Witness ==
    \E p \in DOMAIN dom : \E i \in DOMAIN insts :
        /\ dom[p].expanded
        /\ hist[p].collapses = 1 /\ hist[p].incs = 1
        /\ ~convertElementToPost(dom, insts[i].settings, RootOf(dom, p)).shouldRemove
        /\ insts[i].counters.totalRemoved >= 1

\* dailyRemoved <= totalRemoved, and neither is negative.
CountersInvariant(counters) ==
    /\ 0 <= counters.dailyRemoved
    /\ counters.dailyRemoved <= counters.totalRemoved

\* C10: in every reachable state the counters in the memory of every Filter,
\* and the counters stored under filterCounters when there are any, have
\* 0 <= dailyRemoved <= totalRemoved, from a store that starts empty or with
\* counters of that kind, over loads, increments and daily rollovers.
C10_DailyAtMostTotal ==
    /\ \A i \in DOMAIN insts : CountersInvariant(insts[i].counters)
    /\ storeCounters.has => CountersInvariant(storeCounters.val)

\* The stored counters were loaded on a new day, rolled over, incremented by
\* a collapse and saved: the daily counter counts again, below the total.
C10_Witness ==
    /\ storeCounters.has
    /\ storeCounters.val.lastResetDate = 1
    /\ storeCounters.val.dailyRemoved = 1
    /\ storeCounters.val.totalRemoved >= 2
    /\ \E i \in DOMAIN insts : insts[i].counters = storeCounters.val

\* C11: the totalRemoved stored under filterCounters never decreases, and
\* every successful collapse is in it: no step lowers the stored total, and a
\* step that collapses posts leaves a stored total at least that much above
\* the one before.
C11_StoredTotalMonotonic ==
    [][ /\ storeCounters.has => storeCounters'.has
        /\ storeCounters'.val.totalRemoved
             >= storeCounters.val.totalRemoved + (Collapses(hist') - Collapses(hist))
      ]_vars

\* Counters read from the store on day: what a load has to leave of them.
RolledOver(read, day) ==
    [totalRemoved |-> read.totalRemoved, dailyRemoved |-> 0, lastResetDate |-> day]

\* The step ends the read of Filter i's loadCounters, and counters were stored.
FilterLoads(i) ==
    /\ insts[i].pc = "loadCounters"
    /\ insts'[i].pc # "loadCounters"
    /\ insts[i].got.has

\* The step ends the read of the popup's loadCounters, and counters were stored.
PopupLoads == popup.pc = "loading" /\ popup'.pc = "closed" /\ popup.got.has

\* Loading counters again on the same day leaves them alone and saves nothing.
LoadsTheSameAgain(inst, counters, day) ==
    /\ countersLoaded([inst EXCEPT !.got = Stored(counters)], day) = counters
    /\ ~savesOnLoad([inst EXCEPT !.got = Stored(counters)], day)

\* C12: a load that finds a stored lastResetDate other than today leaves
\* dailyRemoved = 0, lastResetDate = today and the totalRemoved it read, and
\* stores exactly that; a load that finds today's date leaves the counters
\* it read and stores nothing (the counters move only by the increments of
\* the first pass that follows in the same step); and loading what a load
\* left, on the same day, changes nothing. The same for the popup's load.
C12_RolloverAtLoad ==
    [][ /\ \A i \in DOMAIN insts : FilterLoads(i) =>
             LET read == insts[i].got.val
                 made == Increments(hist') - Increments(hist)
             IN  /\ IF read.lastResetDate # today
                    THEN /\ insts'[i].counters = RolledOver(read, today)
                         /\ storeCounters' = Stored(RolledOver(read, today))
                    ELSE /\ insts'[i].counters =
                              [read EXCEPT !.totalRemoved = @ + made,
                                           !.dailyRemoved = @ + made]
                         /\ made = 0 => storeCounters' = storeCounters
                 /\ LoadsTheSameAgain(insts[i], countersLoaded(insts[i], today), today)
        /\ PopupLoads =>
             IF popup.got.val.lastResetDate # today
             THEN storeCounters' = Stored(RolledOver(popup.got.val, today))
             ELSE storeCounters' = storeCounters
      ]_vars

\* A Filter has loaded counters of the day before with a daily count: its
\* daily counter is 0, its total is the stored one, and the store holds that.
C12_Witness ==
    /\ today = 1
    /\ \E i \in DOMAIN insts :
         /\ insts[i].pc = "saveCounters"
         /\ insts[i].counters.lastResetDate = 1
         /\ insts[i].counters.dailyRemoved = 0
         /\ insts[i].counters.totalRemoved >= 1
         /\ storeCounters = Stored(insts[i].counters)

\* The entries of Filter i's pending map whose turn in a tick gets as far as
\* fetchUserProfile: the element is in the document, its post is not marked
\* expanded, and it has an author.
Resolvable(i) ==
    { k \in DOMAIN insts[i].pending :
        LET entry == insts[i].pending[k]
        IN  /\ documentContains(dom, entry.ele)
            /\ ~expandedAttr(dom, articleParentOf(dom, entry.ele))
            /\ authorOf(dom, entry) # <<>> }

\* The turn of one entry of the pending map in a tick of Filter i now.
TurnOf(i, entry) == tickFrom(StateOf(i), <<entry>>, 1, now)

\* The cache of Filter i holds an answer for user that is minutes old.
CachedFor(i, user, minutes) ==
    /\ user \in DOMAIN insts[i].userAgeCache
    /\ now - insts[i].userAgeCache[user].fetchedAt = minutes

\* The turn answered from the cache: no call was started, and the post shows
\* a banner exactly when it did before or the cached date is too young.
AnsweredFromCache(i, entry, user, out) ==
    /\ ~out.waiting
    /\ out.st.inst.pendingRequests = insts[i].pendingRequests
    /\ out.st.inst.userAgeCache = insts[i].userAgeCache
    /\ out.st.dom[entry.ele.p].banner
         <=> \/ dom[entry.ele.p].banner
             \/ isAccountTooYoung(insts[i].userAgeCache[user].createdAt,
                                  insts[i].settings.minAccountAge, now)

\* The turn started a call for user: the tick waits for it, the cache is as
\* it was (an old entry stays), and no verdict was acted on.
StartedLookup(i, user, out) ==
    /\ out.waiting
    /\ out.user = user
    /\ out.st.inst.pendingRequests = insts[i].pendingRequests \cup {user}
    /\ out.st.inst.userAgeCache = insts[i].userAgeCache
    /\ out.st.dom = dom

\* C13: an entry whose author has a cache entry less than 60 minutes old is
\* answered from the cache without a call; with an entry 60 minutes old or
\* older, or none (and no call for the author under way), a call is started
\* and the old entry stays in the cache; a date that comes back replaces the
\* entry with the time of its arrival.
C13_CacheFreshness ==
    /\ \A i \in DOMAIN insts : \A k \in Resolvable(i) :
         LET entry == insts[i].pending[k]
             user == authorOf(dom, entry)
         IN  IF \E m \in 0..59 : CachedFor(i, user, m)
             THEN AnsweredFromCache(i, entry, user, TurnOf(i, entry))
             ELSE user \notin insts[i].pendingRequests
                    => StartedLookup(i, user, TurnOf(i, entry))
    /\ \A j \in DOMAIN procs : \A resp \in Responses(procs[j].user) :
         resp.createdAt.kind = "date" =>
           fetchUserProfileDone(insts[procs[j].inst], procs[j].user, resp, now)
               .userAgeCache[procs[j].user]
             = [createdAt |-> resp.createdAt, fetchedAt |-> now]

\* 59 minutes after a date was cached for its author, a post waits in the
\* pending map, and its turn collapses it without a call.
C13_Witness ==
    \E i \in DOMAIN insts : \E k \in Resolvable(i) :
        LET entry == insts[i].pending[k]
        IN  /\ CachedFor(i, authorOf(dom, entry), 59)
            /\ ~dom[entry.ele.p].banner
            /\ TurnOf(i, entry).st.dom[entry.ele.p].banner
            /\ ~TurnOf(i, entry).waiting

\* The users Filter i has a call under way for.
InFlight(i) == { procs[j].user : j \in { n \in DOMAIN procs : procs[n].inst = i } }

\* The turn did nothing but drop its entry: no call, no verdict, no count.
ReturnedNull(i, out) ==
    /\ ~out.waiting
    /\ out.st.inst.pendingRequests = insts[i].pendingRequests
    /\ out.st.inst.userAgeCache = insts[i].userAgeCache
    /\ out.st.inst.counters = insts[i].counters
    /\ out.st.dom = dom
    /\ out.st.hist = hist
    /\ out.st.store = storeCounters

\* C14: a Filter never has two calls under way for one user, whatever ticks
\* and rescans overlap; pendingRequests names exactly the users of its calls
\* under way; and the turn of an entry whose author is among them starts no
\* call and acts on no verdict.
C14_OneCallPerUser ==
    /\ \A j1, j2 \in DOMAIN procs :
         (procs[j1].inst = procs[j2].inst /\ procs[j1].user = procs[j2].user) => j1 = j2
    /\ \A i \in DOMAIN insts :
         /\ insts[i].pendingRequests = InFlight(i)
         /\ \A k \in Resolvable(i) :
              authorOf(dom, insts[i].pending[k]) \in InFlight(i)
                => ReturnedNull(i, TurnOf(i, insts[i].pending[k]))

\* A tick has just run while a call of an earlier tick was under way for the
\* author of its entry: that entry has left the pending map, its element is
\* still in the document, and the one call is still the only one.
C14_Witness ==
    /\ lastAct.kind = "tick"
    /\ Len(procs) = 1
    /\ documentContains(dom, procs[1].batch[procs[1].k].ele)
    /\ \A k \in DOMAIN insts[procs[1].inst].pending :
         insts[procs[1].inst].pending[k].ele # procs[1].batch[procs[1].k].ele

\* The shreddit-post of post p is in some entry of seq from index k on.
HoldsPost(seq, k, p) ==
    \E n \in k..Len(seq) : seq[n].ele.p = p /\ seq[n].ele.tag = ShredditPost

\* Post p, by an author whose account is too young for Filter i, has lost
\* its place in the pending map to the in-flight test: a tick has just run, a
\* call for the author is under way, the post is in the document without a
\* banner, and neither the map nor what is left of a suspended tick's batch
\* holds it.
DedupDropped(i, p) ==
    /\ lastAct = Act("tick", i)
    /\ dom[p].attached /\ ~dom[p].banner /\ ~dom[p].expanded
    /\ dom[p].author \in InFlight(i)
    /\ isAccountTooYoung(CreatedAt(dom[p].author), insts[i].settings.minAccountAge, now)
    /\ ~HoldsPost(insts[i].pending, 1, p)
    /\ \A j \in DOMAIN procs : ~HoldsPost(procs[j].batch, procs[j].k, p)

\* C15: a post by a too-young author that the in-flight test turned away is
\* collapsed in the end.
C15_DedupedIsCollapsedLater ==
    \A p \in 1..MaxPosts :
        (filter = 1 /\ p \in DOMAIN dom /\ DedupDropped(1, p))
          ~> (p \in DOMAIN dom /\ dom[p].banner)

\* The kinds of a lookup that failed or came back malformed: the fetch
\* threw, the status was not ok, no creation time was found, or the time
\* found is no date.
FailedKinds == {"throw", "notOk", "noTime", "invalid"}

\* C16: a lookup that failed or came back malformed leaves the age cache of
\* its Filter as it was: no entry is made and none is overwritten.
C16_FailedLookupLeavesCache ==
    [][ lastAct'.kind \in FailedKinds
          => insts'[lastAct'.inst].userAgeCache = insts[lastAct'.inst].userAgeCache
      ]_vars

\* Some Filter of instances holds, at clock, a cached date for the author of
\* post p of page d that is less than an hour old and too young for its
\* minimum age.
KnownTooYoung(instances, d, p, clock) ==
    \E i \in DOMAIN instances :
        LET cache == instances[i].userAgeCache
            user == d[p].author
        IN  /\ user \in DOMAIN cache
            /\ cache[user].createdAt.kind = "date"
            /\ clock - cache[user].fetchedAt < 60
            /\ (clock - cache[user].createdAt.t) * 10
                 < instances[i].settings.minAccountAge * TenMonthMinutes

\* C17: where no rule matches a post, a step collapses it only if a date for
\* its author is known by the end of the step and is too young, and counts
\* nothing for a post it does not collapse: after a lookup that threw, was
\* not ok, found no time or found no date, and after a turn the in-flight
\* test sent away, the post is as it was.
C17_UnknownAgeIsKept ==
    [][ \A p \in DOMAIN hist :
          /\ hist'[p].collapses > hist[p].collapses
               => KnownTooYoung(insts', dom', p, now')
          /\ hist'[p].collapses = hist[p].collapses
               => hist'[p].incs = hist[p].incs /\ dom'[p].banner = dom[p].banner
      ]_vars

\* A lookup for alice, whose account is too young for the minimum of 12
\* months, has just failed: her post is in the document without a banner,
\* nothing was counted, and the cache knows nothing of her.
C17_Witness ==
    /\ lastAct.kind \in {"throw", "notOk", "noTime"}
    /\ insts[lastAct.inst].settings.minAccountAge = 12
    /\ insts[lastAct.inst].userAgeCache = << >>
    /\ insts[lastAct.inst].counters = Counters(2, 1, 0)
    /\ \E p \in DOMAIN dom :
         /\ dom[p].author = Str_alice
         /\ dom[p].attached /\ ~dom[p].banner
         /\ hist[p] = NoHistory

\* The age of each account of the page as the banner has to state it, in
\* months with one decimal, and the minimum age as the settings give it.
StatedAge(user) ==
    IF user = Str_alice THEN <<"3", ".", "0">>
    ELSE IF user = Str_carol THEN <<"5", ".", "0">>
    ELSE <<"2", "0", ".", "0">>

StatedMinimum(months) ==
    IF months = 12 THEN <<"1", "2">> ELSE IF months = 5 THEN <<"5">> ELSE <<"0">>

\* The account created at createdAt is, at clock, younger than months months
\* of 30.44 days: 10 * minutes < months * 438336.
YoungerThan(createdAt, months, clock) ==
    (clock - createdAt.t) * 10 < months * TenMonthMinutes

\* The post of element ele after a verdict on a known creation date of its
\* author: collapsed once more, counted, and with a banner that names the
\* author, the age and the minimum, exactly when the account is younger
\* than the minimum; else as it was.
VerdictFor(i, ele, createdAt, out) ==
    LET p == ele.p
        months == insts[i].settings.minAccountAge
    IN  IF YoungerThan(createdAt, months, now)
        THEN /\ months > 0
             /\ out.st.dom[p].banner
             /\ out.st.dom[p].reason =
                  Reason("age", dom[p].author \o <<" ">> \o StatedAge(dom[p].author)
                                  \o <<" ">> \o StatedMinimum(months))
             /\ out.st.hist[p] = [collapses |-> hist[p].collapses + 1,
                                  incs |-> hist[p].incs + 1]
        ELSE /\ out.st.dom[p] = dom[p]
             /\ out.st.hist[p] = hist[p]

\* C18: with the age filter on, the verdict on a post whose author's
\* creation date is known, fetched now or cached less than an hour ago,
\* collapses the post iff the age in months of 30.44 days is strictly below
\* minAccountAge, and the banner then states the age and the minimum; with a
\* minimum of 12 the post of a 3 months old account is collapsed and that of
\* a 20 months old one kept, an account of 5 months to the minute is kept
\* with a minimum of 5, and with a minimum of 0 no post is collapsed.
C18_AgeVerdict ==
    /\ \A j \in DOMAIN procs :
         LET proc == procs[j]
             ele == proc.batch[proc.k].ele
         IN  (documentContains(dom, ele) /\ ~dom[ele.p].banner)
               => VerdictFor(proc.inst, ele, CreatedAt(proc.user),
                             resumeSecondPass(StateOf(proc.inst), proc.batch, proc.k,
                                              proc.user,
                                              [kind |-> "ok",
                                               createdAt |-> CreatedAt(proc.user)],
                                              now))
    /\ \A i \in DOMAIN insts : \A k \in Resolvable(i) :
         LET entry == insts[i].pending[k]
             user == authorOf(dom, entry)
         IN  (/\ \E m \in 0..59 : CachedFor(i, user, m)
              /\ insts[i].userAgeCache[user].createdAt.kind = "date"
              /\ ~dom[entry.ele.p].banner)
               => VerdictFor(i, entry.ele, insts[i].userAgeCache[user].createdAt,
                             TurnOf(i, entry))
    /\ \A i \in DOMAIN insts : \A p \in DOMAIN dom :
         /\ (insts[i].settings.minAccountAge = 0 \/ dom[p].author = Str_bob)
              => ~dom[p].banner
         /\ (insts[i].settings.minAccountAge = 5 /\ dom[p].author = Str_carol)
              => ~dom[p].banner

\* The creation date of alice, 3 months ago, has just come back to a Filter
\* with a minimum of 12 months: her post is collapsed and counted once, and
\* its banner states 3.0 months and the minimum of 12.
C18_Witness ==
    /\ lastAct.kind = "date"
    /\ insts[lastAct.inst].settings.minAccountAge = 12
    /\ \E p \in DOMAIN dom :
         /\ dom[p].banner
         /\ dom[p].reason = Reason("age", Str_alice \o <<" ", "3", ".", "0", " ", "1", "2">>)
         /\ hist[p] = [collapses |-> 1, incs |-> 1]

\* The entries of a pending map that hold an element of post p.
EntriesOf(pending, p) == SelectSeq(pending, LAMBDA entry : entry.ele.p = p)

\* C19: a post that carries the mark of a user expansion is left alone by
\* everything but a click of the user: no step collapses it, counts it or
\* puts an element of it into a pending map, and no step takes the mark
\* away.
C19_ExpandedIsLeftAlone ==
    [][ \A p \in DOMAIN dom :
          (dom[p].expanded /\ lastAct'.kind # "toggle")
            => /\ dom'[p] = dom[p]
               /\ hist'[p] = hist[p]
               /\ \A i \in DOMAIN insts :
                    Len(EntriesOf(insts'[i].pending, p)) <= Len(EntriesOf(insts[i].pending, p))
      ]_vars

\* C20: a post the user has expanded still shows the control that collapses
\* it again: the banner with its Show/Hide button, the only elements
\* togglePost listens on, is in the post's subtree.
C20_ControlRemainsWhenExpanded ==
    \A p \in DOMAIN dom :
        (dom[p].attached /\ dom[p].saved /\ ~dom[p].isCollapsed) => dom[p].banner

\* C21: the children saved at a collapse are those the root had, they are
\* never changed or dropped afterwards, every switch to Expanded gives the
\* root children that hold what the saved ones hold, and a root that shows
\* no banner keeps what its children hold.
C21_SavedChildrenRestored ==
    [][ \A p \in DOMAIN dom :
          /\ dom[p].saved
               => dom'[p].saved /\ dom'[p].original = dom[p].original
          /\ (~dom[p].saved /\ dom'[p].saved)
               => dom'[p].original = childNodes(dom, p)
          /\ (dom[p].banner /\ ~dom'[p].banner)
               => /\ dom'[p].shape = dom[p].shape
                  /\ childNodes(dom', p) = dom[p].original
          /\ (~dom[p].banner /\ ~dom'[p].banner)
               => childNodes(dom', p) = childNodes(dom, p)
      ]_vars

\* The user has just expanded an article that was collapsed: it holds a
\* shreddit-post again, with the attributes that were saved.
C21_Witness ==
    /\ lastAct.kind = "toggle"
    /\ \E p \in DOMAIN dom :
         /\ dom[p].shape = "AS" /\ dom[p].saved
         /\ dom[p].expanded /\ ~dom[p].banner
         /\ dom[p].original.inner
         /\ dom[p].original.postTitle = dom[p].postTitle
         /\ dom[p].gen = 1

\* C22: an element a pass of a Filter has handled is not handled again. Once
\* the observer of a Filter is installed every candidate of the page has been
\* through one of its passes, so no step puts an element of a post that is
\* already on the page into its pending map, unless the element is in the
\* map already.
C22_HandledOnce ==
    [][ \A i \in DOMAIN insts :
          insts[i].observer =>
            \A k \in DOMAIN insts'[i].pending :
                insts'[i].pending[k].ele.p \in DOMAIN dom
                  => \E n \in DOMAIN insts[i].pending :
                        insts[i].pending[n].ele = insts'[i].pending[k].ele
      ]_vars

\* C23: at most one Filter has an observer installed or an interval set.
C23_OneFilterActive ==
    \A i, j \in DOMAIN insts :
        ((insts[i].observer \/ insts[i].timer) /\ (insts[j].observer \/ insts[j].timer))
          => i = j

\* C24: an accountAgeFilterToggled message leaves the page, the collapsed
\* posts, the counters, the lookups in flight and the observer as they are
\* and runs no pass; it only sets the interval when the payload is true and
\* clears it when the payload is false, and on false it empties the pending
\* map. So a Filter whose accountAgeFilterEnabled is false has an empty
\* pending map whenever no handler is running.
ToggledTo(enabled) ==
    lastAct'.kind \in (IF enabled THEN {"ageOn"} ELSE {"ageOff", "ageOffCleared"})

C24_ToggleOnlyMovesTimer ==
    /\ [][ \A enabled \in BOOLEAN : ToggledTo(enabled) =>
             /\ dom' = dom
             /\ hist' = hist
             /\ storeCounters' = storeCounters
             /\ procs' = procs
             /\ \A i \in DOMAIN insts :
                   /\ insts'[i].observer = insts[i].observer
                   /\ insts'[i].counters = insts[i].counters
                   /\ insts'[i].userAgeCache = insts[i].userAgeCache
                   /\ insts'[i].pendingRequests = insts[i].pendingRequests
                   /\ i # lastAct'.inst => insts'[i] = insts[i]
             /\ insts'[lastAct'.inst].timer = enabled
             /\ insts'[lastAct'.inst].pending =
                    IF enabled THEN insts[lastAct'.inst].pending ELSE << >>
          ]_vars
    /\ [](\A i \in DOMAIN insts :
             ~insts[i].settings.accountAgeFilterEnabled => insts[i].pending = << >>)

\* The filter was switched off while posts waited in the pending map of a
\* watching Filter that had collapsed a post.
C24_Witness ==
    /\ lastAct.kind = "ageOffCleared"
    /\ insts[lastAct.inst].observer
    /\ ~insts[lastAct.inst].timer
    /\ insts[lastAct.inst].pending = << >>
    /\ \E p \in DOMAIN dom : dom[p].banner

\* C25: disabling a pack removes only items that pack put into the lists: a
\* keyword or subreddit that is in the list because the user added it by
\* hand (also one the user removed and added again) is still there after
\* disablePack.
C25_PackRemovesOnlyItsOwn ==
    [][ lastAct'.kind = "disablePack" =>
          /\ \A k \in Range(popup.settings.keywords) :
                popup.keywordOrigin[k] # lastAct'.inst
                    => includes(popup'.settings.keywords, k)
          /\ \A k \in Range(popup.settings.subreddits) :
                popup.subredditOrigin[k] # lastAct'.inst
                    => includes(popup'.settings.subreddits, k)
      ]_vars

\* C26: after any run of the popup's list and pack operations every keyword
\* is lowercase, trimmed, non-empty and listed once, every subreddit is
\* lowercase, listed once and "r/" followed by a name, and both lists are
\* sorted.
ValidKeyword(k) == k # <<>> /\ toLowerCase(k) = k /\ trim(k) = k

ValidSubreddit(s) == toLowerCase(s) = s /\ startsWithR(s) /\ Len(s) > Len(<<"r", "/">>)

ListedOnce(list) == \A i, j \in DOMAIN list : list[i] = list[j] => i = j

C26_RuleSetInvariant ==
    popup.pc = "open" =>
        /\ \A i \in DOMAIN popup.settings.keywords : ValidKeyword(popup.settings.keywords[i])
        /\ \A i \in DOMAIN popup.settings.subreddits :
              ValidSubreddit(popup.settings.subreddits[i])
        /\ ListedOnce(popup.settings.keywords)
        /\ ListedOnce(popup.settings.subreddits)
        /\ sort(popup.settings.keywords) = popup.settings.keywords
        /\ sort(popup.settings.subreddits) = popup.settings.subreddits

\* C27: collapsePost on an element that is not in the document changes
\* nothing and reports "not collapsed": a post whose root the page has taken
\* out of the document is never changed, collapsed or counted again, also
\* when the age lookup for it was in flight and returns a young account.
C27_DetachedIsLeftAlone ==
    [][ \A p \in DOMAIN dom :
          ~dom[p].attached => dom'[p] = dom[p] /\ hist'[p] = hist[p] ]_vars

\* The lookup for carol's post, the only post of the page, returned her
\* creation date, 5 months back with a minimum of 12, after the page had
\* removed the post: it shows no banner and was not counted.
C27_Witness ==
    /\ lastAct.kind = "date"
    /\ Len(dom) = 1
    /\ dom[1].author = Str_carol
    /\ ~dom[1].attached
    /\ ~dom[1].banner
    /\ hist[1] = NoHistory
    /\ insts[lastAct.inst].settings.minAccountAge = 12
    /\ insts[lastAct.inst].counters = Counters(2, 1, 0)

\* C28: incrementCounters raises the counters in memory first and then
\* issues the store write of them; countersUpdated is sent only once that
\* write has completed; a failed write sends nothing, a failed send is
\* swallowed, and neither lowers the counters in memory or stops the Filter.
SendsIn(calls) == Cardinality({ j \in DOMAIN calls : calls[j].at = "send" })

SetsIn(calls) == Cardinality({ j \in DOMAIN calls : calls[j].at = "set" })

Running(inst) == [pc |-> inst.pc, observer |-> inst.observer, timer |-> inst.timer]

C28_IncrementOrdering ==
    /\ [][
            /\ lastAct'.kind = "increment" =>
               /\ insts'[lastAct'.inst].counters = countersPlusOne(insts[lastAct'.inst].counters)
               /\ procs'[Len(procs')] =
                      SaveCall(lastAct'.inst, "set", insts'[lastAct'.inst].counters,
                               insts'[lastAct'.inst].counters)
               /\ SendsIn(procs') = SendsIn(procs)
               /\ storeCounters' = storeCounters /\ popup' = popup
            /\ lastAct'.kind = "setOk" =>
               /\ SendsIn(procs') = SendsIn(procs) + 1
               /\ SetsIn(procs') = SetsIn(procs) - 1
               /\ insts' = insts /\ popup' = popup
            /\ lastAct'.kind = "setFailed" =>
               /\ SendsIn(procs') = SendsIn(procs)
               /\ SetsIn(procs') = SetsIn(procs) - 1
               /\ insts' = insts /\ popup' = popup /\ storeCounters' = storeCounters
            /\ lastAct'.kind = "sendFailed" =>
               /\ Len(procs') = Len(procs) - 1
               /\ insts' = insts /\ popup' = popup /\ storeCounters' = storeCounters
            /\ \A i \in DOMAIN insts :
                  /\ insts'[i].counters.totalRemoved >= insts[i].counters.totalRemoved
                  /\ insts'[i].counters.dailyRemoved >= insts[i].counters.dailyRemoved
                  /\ Running(insts'[i]) = Running(insts[i])
          ]_vars
    /\ [](\A j \in DOMAIN procs :
             procs[j].at = "send"
                 => /\ storeCounters.has
                    /\ storeCounters.val.totalRemoved >= procs[j].wrote.totalRemoved)

\* A write failed and sent nothing while the Filter had counted, and the
\* Filter went on.
C28_Witness ==
    /\ lastAct.kind = "setFailed"
    /\ procs = << >>
    /\ insts[lastAct.inst].counters.totalRemoved > storeCounters.val.totalRemoved
    /\ insts[lastAct.inst].observer
    /\ popup = [pc |-> "open", got |-> NoRead]

\* C29: when a post gets its banner, by a pass, by an age verdict or by the
\* user's click, its video (a <video>, or the one inside a shreddit-player)
\* has been paused and set to position 0; no post that shows a banner has a
\* video that plays.
C29_CollapsedVideoIsPaused ==
    \A p \in DOMAIN dom :
        dom[p].banner => ~dom[p].playing /\ dom[p].currentTime = 0

\* The video in the shreddit-player of carol's post was playing when the age
\* verdict collapsed the post.
C29_Witness ==
    /\ lastAct.kind = "date"
    /\ \E p \in DOMAIN dom :
         /\ dom[p].video = "player"
         /\ dom[p].banner
         /\ hist[p].collapses >= 1
         /\ ~dom[p].playing

\* C30: the pending map of a Filter never holds an element of a post that
\* shows a banner, whatever it was collapsed for, nor an element that is out
\* of the document: a pass queues neither a collapsed post nor the inner
\* shreddit-post of an article it has just collapsed.
C30_PendingHoldsNoCollapsed ==
    \A i \in DOMAIN insts :
        \A k \in DOMAIN insts[i].pending :
            insts[i].pending[k].ele.p \in DOMAIN dom =>
                /\ ~dom[insts[i].pending[k].ele.p].banner
                /\ documentContains(dom, insts[i].pending[k].ele)

\* C31: a tick takes the first 5 entries of the pending map at most and
\* works on these only: the entries behind them stay in the map, unchanged
\* and in their order, no lookup is started for an author outside the batch
\* and no post outside the batch is changed; when the tick resumes after a
\* fetch it removes entries of its own batch only.
CarriedOver(pending) == SubSeq(pending, BatchSize + 1, Len(pending))

TailOf(pending, n) == SubSeq(pending, Len(pending) - n + 1, Len(pending))

InBatch(batch, ele) == \E n \in DOMAIN batch : batch[n].ele = ele

FetchKinds == {"throw", "notOk", "noTime", "invalid", "date"}

C31_BatchOfFive ==
    [][ \A i \in DOMAIN insts :
          /\ (lastAct'.kind = "tick" /\ lastAct'.inst = i) =>
                /\ Len(batchOf(insts[i].pending)) <= BatchSize
                /\ Len(insts'[i].pending) >= Len(CarriedOver(insts[i].pending))
                /\ TailOf(insts'[i].pending, Len(CarriedOver(insts[i].pending)))
                      = CarriedOver(insts[i].pending)
                /\ \A u \in insts'[i].pendingRequests \ insts[i].pendingRequests :
                      \E n \in DOMAIN batchOf(insts[i].pending) :
                          authorOf(dom, batchOf(insts[i].pending)[n]) = u
                /\ \A p \in DOMAIN dom :
                      dom'[p] # dom[p] =>
                          \E n \in DOMAIN batchOf(insts[i].pending) :
                              batchOf(insts[i].pending)[n].ele.p = p
          /\ (lastAct'.kind \in FetchKinds /\ lastAct'.inst = i) =>
                \E j \in DOMAIN procs :
                    /\ procs[j].inst = i
                    /\ \A k \in DOMAIN insts[i].pending :
                          InBatch(procs[j].batch, insts[i].pending[k].ele)
                            \/ \E m \in DOMAIN insts'[i].pending :
                                   insts'[i].pending[m] = insts[i].pending[k]
      ]_vars

\* A tick has taken five of six entries, dropped the four articles and
\* waits for the fetch of the fifth; the sixth is still in the map.
C31_Witness ==
    /\ lastAct.kind = "tick"
    /\ \E j \in DOMAIN procs :
         /\ Len(procs[j].batch) = BatchSize
         /\ procs[j].inst = lastAct.inst
         /\ \E k \in DOMAIN insts[lastAct.inst].pending :
               ~InBatch(procs[j].batch, insts[lastAct.inst].pending[k].ele)

\* C32: every entry of a tick's batch leaves the pending map when the tick
\* has dealt with it, whatever happened to it (element out of the document,
\* post expanded by the user, lookup answered, failed or skipped), and a
\* tick deals with its entries one after the other, each once; so when no
\* pass queues anything any more, the interval keeps firing and fetches
\* end, the pending map is empty from some time on.
WithoutCall(calls, j) == SubSeq(calls, 1, j - 1) \o SubSeq(calls, j + 1, Len(calls))

\* The entries from position a to position b of batch are not in the map.
NoneLeft(batch, a, b, pending) ==
    \A n \in a..b : n \in DOMAIN batch =>
        \A k \in DOMAIN pending : pending[k].ele # batch[n].ele

QueuesNothing == lastAct'.kind \notin {"pass", "toggle", "other"}

C32_BatchLeavesTheMap ==
    /\ [][ \A i \in DOMAIN insts :
            /\ (lastAct'.kind = "tick" /\ lastAct'.inst = i) =>
                  IF Len(procs') = Len(procs)
                  THEN NoneLeft(batchOf(insts[i].pending), 1, BatchSize, insts'[i].pending)
                  ELSE /\ procs'[Len(procs')].batch = batchOf(insts[i].pending)
                       /\ NoneLeft(batchOf(insts[i].pending), 1, procs'[Len(procs')].k - 1,
                                   insts'[i].pending)
            /\ (lastAct'.kind \in FetchKinds /\ lastAct'.inst = i) =>
                  \E j \in DOMAIN procs :
                      /\ procs[j].inst = i
                      /\ \/ /\ procs' = WithoutCall(procs, j)
                            /\ NoneLeft(procs[j].batch, procs[j].k, BatchSize, insts'[i].pending)
                         \/ /\ Len(procs') = Len(procs)
                            /\ procs'[Len(procs')].batch = procs[j].batch
                            /\ procs'[Len(procs')].k > procs[j].k
                            /\ NoneLeft(procs[j].batch, procs[j].k, procs'[Len(procs')].k - 1,
                                        insts'[i].pending)
          ]_vars
    /\ (<>[][QueuesNothing]_vars => <>[](\A i \in DOMAIN insts : insts[i].pending = << >>))

\* A tick that waited for a fetch has ended and the map is empty.
C32_Witness ==
    /\ lastAct.kind \in FetchKinds
    /\ procs = << >>
    /\ insts[lastAct.inst].timer
    /\ insts[lastAct.inst].pending = << >>
    /\ insts[lastAct.inst].pendingRequests = {}

\* C33: in every Filter the interval runs only while accountAgeFilterEnabled
\* is true, whatever start, accountAgeFilterToggled messages (one arriving
\* while init() awaits the store included) and destroy() calls happened,
\* and a destroyed Filter has neither an observer nor an interval.
C33_TimerFollowsSetting ==
    \A i \in DOMAIN insts :
        /\ insts[i].timer => insts[i].settings.accountAgeFilterEnabled
        /\ insts[i].destroyed => ~insts[i].observer /\ ~insts[i].timer

\* The first half alone: the interval runs only while the setting is true.
C33_TimerOnlyWhenOn ==
    \A i \in DOMAIN insts : insts[i].timer => insts[i].settings.accountAgeFilterEnabled

\* The second half alone: nothing runs in a destroyed Filter.
C33_DestroyedIsQuiet ==
    \A i \in DOMAIN insts : insts[i].destroyed => ~insts[i].observer /\ ~insts[i].timer

\* C34: a failure of the store is never fatal. A rejected read of
\* filterSettings leaves the default settings and init() goes on to
\* loadCounters; a rejected read of filterCounters leaves the counters in
\* memory and init() goes on to the first pass and the observer; a rejected
\* write changes nothing but the store: every collapse is still counted in
\* the counters in memory, every Filter whose init() has returned with the
\* extension enabled has its observer, and every post a keyword of such a
\* Filter matches is collapsed.
C34_StoreFailureNotFatal ==
    /\ [][ /\ \A i \in DOMAIN insts :
                 /\ (lastAct' = Act("loadFailed", i) /\ insts[i].pc = "loadSettings") =>
                        /\ insts'[i].settings = DefaultSettings
                        /\ insts'[i].pc = "loadCounters"
                 /\ (lastAct' = Act("loadFailed", i) /\ insts[i].pc = "loadCounters") =>
                        /\ insts'[i].pc = "ready"
                        /\ insts'[i].counters.lastResetDate = insts[i].counters.lastResetDate
                 /\ insts'[i].counters.totalRemoved =
                        CountersBefore(i).totalRemoved + (Increments(hist') - Increments(hist))
                 /\ insts'[i].counters.dailyRemoved =
                        CountersBefore(i).dailyRemoved + (Increments(hist') - Increments(hist))
           /\ Collapses(hist') - Collapses(hist) = Increments(hist') - Increments(hist)
           /\ storeCounters.fails => storeCounters' = storeCounters
           /\ storeSettings.fails => storeSettings' = storeSettings
         ]_vars
    /\ [](\A i \in DOMAIN insts :
            (insts[i].pc = "ready" /\ insts[i].settings.enabled) =>
                /\ insts[i].observer
                /\ \A p \in DOMAIN dom :
                     (dom[p].aria = Str_CryptoNow /\ insts[i].settings.keywords = <<Str_crypto>>)
                        => dom[p].banner /\ hist[p].collapses = 1 /\ hist[p].incs = 1)

\* The read of filterCounters was rejected: init() has ended with the first
\* pass, which collapsed a post and counted it in memory from zero, the
\* observer is installed and the store still rejects.
C34_Witness ==
    /\ storeCounters.fails
    /\ \E i \in DOMAIN insts :
         /\ lastAct = Act("loadFailed", i)
         /\ insts[i].pc = "ready"
         /\ insts[i].observer
         /\ insts[i].counters.totalRemoved = 1
         /\ \E p \in DOMAIN dom : dom[p].banner /\ hist[p].incs = 1

\* C35: the users in pendingRequests of a Filter are exactly the users of its
\* calls that wait for a fetch: the mark is taken away when the call ends,
\* however it ends, and as long as the call is under way nothing takes it
\* away, a request turned away by the in-flight test least of all; and a
\* user who is marked is unmarked later, so that no failure blocks the
\* lookups of that user for good.
C35_MarkFollowsCall ==
    /\ [](\A i \in DOMAIN insts : insts[i].pendingRequests = InFlight(i))
    /\ [][ \A i \in DOMAIN insts :
             /\ lastAct' = Act("tick", i) =>
                    insts[i].pendingRequests \subseteq insts'[i].pendingRequests
             /\ (lastAct'.kind \in FetchKinds /\ lastAct'.inst = i) =>
                    \E j \in DOMAIN procs :
                        /\ procs[j].inst = i
                        /\ \/ procs[j].user \notin insts'[i].pendingRequests
                           \/ \E m \in DOMAIN procs' :
                                  /\ procs'[m].user = procs[j].user
                                  /\ procs'[m].batch = procs[j].batch
                                  /\ procs'[m].k > procs[j].k
         ]_vars
    /\ ((filter = 1 /\ insts[1].pendingRequests # {})
          ~> (filter = 1 /\ insts[1].pendingRequests = {}))

\* A lookup of alice has just failed, and the tick it belonged to has gone
\* on to the next entry, another post of alice: the failure left no mark,
\* so the second lookup was started and is under way.
C35_Witness ==
    /\ lastAct.kind \in FailedKinds
    /\ \E j \in DOMAIN procs :
         /\ procs[j].inst = lastAct.inst
         /\ procs[j].user = Str_alice
         /\ procs[j].k > 1
    /\ insts[lastAct.inst].pendingRequests = {Str_alice}
    /\ Str_alice \notin DOMAIN insts[lastAct.inst].userAgeCache

\* C36: for every post that was collapsed at least once, in every state,
\* _isCollapsed is true exactly when the banner is a child of the root, and
\* exactly when the mark of a user expansion is absent.
C36_PostStateConsistent ==
    \A p \in DOMAIN dom :
        dom[p].saved =>
            /\ dom[p].isCollapsed <=> dom[p].banner
            /\ dom[p].isCollapsed <=> ~dom[p].expanded

\* The half that relates _isCollapsed and the banner.
C36_CollapsedIffBanner ==
    \A p \in DOMAIN dom : dom[p].saved => (dom[p].isCollapsed <=> dom[p].banner)

\* C37: a Filter that was destroyed, or whose account-age filter was
\* switched off, collapses nothing, counts nothing and writes nothing to the
\* store in a tick or in the continuation of a lookup, a tick or a lookup
\* that was under way at that moment included.
C37_QuietAfterStop ==
    [][ \A i \in DOMAIN insts :
          ( /\ insts[i].destroyed \/ ~insts[i].settings.accountAgeFilterEnabled
            /\ lastAct'.kind \in FetchKinds \cup {"tick"}
            /\ lastAct'.inst = i )
          => /\ hist' = hist
             /\ dom' = dom
             /\ insts'[i].counters = insts[i].counters
             /\ storeCounters' = storeCounters
      ]_vars

\* The same for a destroyed Filter alone.
C37_QuietAfterDestroy ==
    [][ \A i \in DOMAIN insts :
          (insts[i].destroyed /\ lastAct'.kind \in FetchKinds \cup {"tick"} /\ lastAct'.inst = i)
          => hist' = hist /\ storeCounters' = storeCounters
      ]_vars

\* The same for a Filter whose account-age filter is off.
C37_QuietAfterAgeOff ==
    [][ \A i \in DOMAIN insts :
          ( /\ ~insts[i].destroyed
            /\ ~insts[i].settings.accountAgeFilterEnabled
            /\ lastAct'.kind \in FetchKinds \cup {"tick"}
            /\ lastAct'.inst = i )
          => hist' = hist /\ storeCounters' = storeCounters
      ]_vars

\* C38: disabling a pack removes no keyword and no subreddit that also
\* belongs to another pack that stays enabled: such an item that was in the
\* list before disablePack is in the list after it.
C38_SharedItemStays ==
    [][ lastAct'.kind = "disablePack" =>
          \A b \in PackIds :
              (b # lastAct'.inst /\ includes(popup'.settings.enabledPacks, b)) =>
                  /\ \A k \in Range(packKeywords(popup.filterPacks[b])) :
                        includes(popup.settings.keywords, k)
                            => includes(popup'.settings.keywords, k)
                  /\ \A k \in Range(packSubreddits(popup.filterPacks[b])) :
                        includes(popup.settings.subreddits, k)
                            => includes(popup'.settings.subreddits, k)
      ]_vars

\* C39: while the stored settings have enabled = false, no Filter has an
\* observer, no pass has run (nothing is in a pending map, no lookup is
\* under way) and no post was collapsed or counted, whatever the lists hold
\* and whatever accountAgeFilterToggled messages have arrived.
C39_DisabledDoesNothing ==
    (storeSettings.has /\ ~storeSettings.val.enabled) =>
        /\ \A i \in DOMAIN insts :
              /\ ~insts[i].observer
              /\ insts[i].pending = << >>
              /\ insts[i].pendingRequests = {}
        /\ procs = << >>
        /\ \A p \in DOMAIN dom :
              ~dom[p].banner /\ ~dom[p].saved /\ hist[p] = NoHistory

\* The extension is disabled in the store, the Filter has started, an
\* accountAgeFilterToggled message has set the interval, the page has brought
\* a post that a keyword of the stored list matches, and a tick has run.
C39_Witness ==
    /\ storeSettings.has /\ ~storeSettings.val.enabled
    /\ storeSettings.val.keywords = <<Str_crypto>>
    /\ lastAct.kind = "tick"
    /\ insts[lastAct.inst].pc = "ready"
    /\ insts[lastAct.inst].timer
    /\ ~insts[lastAct.inst].settings.enabled
    /\ \E p \in DOMAIN dom : dom[p].aria = Str_CryptoNow /\ dom[p].attached

====
